---- MODULE Spec2Model ----
(***************************************************************************)
(* Model of the tycho-indexer extractor runner and fan-out hub             *)
(* (tycho-indexer/src/extractor/runner.rs).                                *)
(*                                                                         *)
(* One extractor runner task, the handles that send it control messages,  *)
(* and the subscribers that own the receiving ends of the capacity-1       *)
(* channels it fans messages out to.  Each action is one step between two  *)
(* points at which another task can run.                                   *)
(***************************************************************************)
EXTENDS Naturals, Integers, Sequences, FiniteSets, TLC

\* ---------------------------------------------------------------- bounds

\* Number of subscriber channels the handles create.
MaxChans == 3
\* Number of upstream New/Undo messages the stream delivers.
MaxUpstream == 2
\* Number of stop() calls the handles make.
MaxStops == 2
\* Number of subscriber channels the handles create in the behaviours
\* checked for liveness.
LiveChans == 2

\* Highest number of a block the upstream delivers.
MaxBlock == 2
\* Upstream messages the extractor is given.
ExtMsgs == 3
\* Versioned rows a store holds before a further write is applied to it.
MaxRows == 3

\* ------------------------------------------------------ program constants

\* mpsc::channel(1) of the control channel.
CtrlCapacity == 1
\* mpsc::channel(1) of every subscriber channel.
SubCapacity == 1

VARIABLES
    pc,           \* position of the runner task
    cur,          \* the control message or upstream item the runner is at
    outcome,      \* what the extractor's handler returned for cur
    ctrlQ,        \* control channel buffer (control_tx -> control_rx)
    subs,         \* subscriptions: subscriber id -> channel
    order,        \* fan-out: ids the iteration still has to visit
    toRemove,     \* fan-out: ids whose send failed
    buf,          \* buffer of each subscriber channel
    rxAlive,      \* whether the receiver of each subscriber channel lives
    created,      \* number of subscriber channels created so far
    received,     \* messages each subscriber took out of its channel
    sent,         \* history: messages successfully sent to each channel
    emitted,      \* history: messages handed to propagate_msg
    handled,      \* number of upstream messages taken from the stream
    result,       \* what the runner task returned
    stopResults,  \* history: what each stop() call returned, in call order
    registered,   \* history: Len(emitted) when the channel was registered
    assigned,     \* history: subscriber ids assigned so far, in order
    store,        \* the committed state of the database
    txn,          \* the open database transaction's view, or NoTxn
    cursor,       \* Inner.cursor, the extractor's in-memory cursor
    head,         \* number of the last block the upstream delivered
    pre,          \* history: store and cursor when the handler was entered
    calls         \* history: gateway calls of the handler being run

vars == <<pc, cur, outcome, ctrlQ, subs, order, toRemove, buf, rxAlive,
          created, received, sent, emitted, handled, result, stopResults,
          registered, assigned, store, txn, cursor, head, pre, calls>>

Chans == 1..MaxChans

\* ---------------------------------------------------------------- helpers

EmptyMap == [x \in {} |-> 0]

Range(f) == {f[x] : x \in DOMAIN f}

Restrict(f, S) == [x \in S |-> f[x]]

Put(f, k, v) == [x \in DOMAIN f \cup {k} |-> IF x = k THEN v ELSE f[x]]

Last(s) == s[Len(s)]

IsPrefix(s, t) == Len(s) <= Len(t) /\ \A i \in 1..Len(s) : s[i] = t[i]

\* Every order in which an iteration can visit the keys of a HashMap.
Orders(S) ==
    {s \in [1..Cardinality(S) -> S] :
        \A i, j \in 1..Cardinality(S) : i # j => s[i] # s[j]}

\* ----------------------------------------------------------------- values

Stop == [type |-> "Stop", ch |-> 0, err |-> <<>>]
Subscribe(c) == [type |-> "Subscribe", ch |-> c, err |-> <<>>]
Item(t) == [type |-> t, ch |-> 0, err |-> <<>>]
StreamErr(m) == [type |-> "Err", ch |-> 0, err |-> m]
NoItem == [type |-> "none", ch |-> 0, err |-> <<>>]

NoResult == [kind |-> "none", msg |-> <<>>]
OkResult == [kind |-> "Ok", msg |-> <<>>]
Error(k, m) == [kind |-> k, msg |-> m]

\* ExtractorIdentity and its Display: "{chain}:{name}".
ExtractorId == [chain |-> "ethereum", name |-> "vm:ambient"]
IdDisplay(id) == <<id.chain, ":", id.name>>

\* format!("{}: stream ended", id)
StreamEndedMsg(id) == IdDisplay(id) \o <<": stream ended">>

\* Messages of the errors the upstream stream can yield (err.to_string()).
UpstreamErrors == {<<"transport error">>}

\* Errors a handler of the extractor can return.
HandlerErrors ==
    {Error("DecodeError", <<"Revert without block ref">>),
     Error("Storage", <<"NotFound">>)}

Outcome(k, e) == [kind |-> k, err |-> e]
NoOutcome == Outcome("none", NoResult)

\* The normalised message the extractor returns for the n-th upstream
\* message, identified by n.
Message(n) == n

\* ---------------------------------------------------- chain and messages

\* Option<T>: None and Some(v).
None == <<>>
Some(v) == <<v>>
IsSome(o) == o # None
UnwrapOr(o, d) == IF IsSome(o) THEN o[1] ELSE d

\* Blocks the upstream can deliver.  number, hash and ts of a block; block
\* timestamps grow with the block number.
BlockNumbers == 1..MaxBlock
BlockHash(n) == <<"block", n>>
BlockTs(n) == n
Block(n) == [number |-> n, hash |-> BlockHash(n), ts |-> BlockTs(n)]

\* Transaction of block n at position i; its hash identifies it.
TxIndices == {1, 2}
Transaction(n, i) ==
    [hash |-> <<"tx", n, i>>, block_hash |-> BlockHash(n), index |-> i]

\* const AMBIENT_CONTRACT
AMBIENT_CONTRACT == "0xaaaaaaaaa24eeeb8d57d431224f73832bc34f688"

\* Storage slots and the values written to slots and balances.
Slots == {1}
Values == {1, 2}

\* AccountUpdateWithTx::new
AccountUpdateWithTx(slots, balance, code, change, tx) ==
    [address |-> AMBIENT_CONTRACT, slots |-> slots, balance |-> balance,
     code |-> code, change |-> change, tx |-> tx]

\* The contract changes a transaction can carry: the creation of the
\* contract with its code, or an update that writes a slot and the balance.
ContractChanges(tx) ==
    {AccountUpdateWithTx(EmptyMap, None, Some(1), "Creation", tx)}
    \cup {AccountUpdateWithTx([s \in Slots |-> v], Some(v), None, "Update", tx)
          : v \in Values}

\* AccountUpdate::is_update, AccountUpdate::is_creation
is_update(u) == u.change = "Update"
is_creation(u) == u.change = "Creation"

\* The sequences over S of length at most n.
SeqsUpTo(S, n) == UNION {[1..k -> S] : k \in 0..n}

\* The changes of a block's payload, in the order the payload lists them:
\* every transaction of the block carries at most one contract change.
ChangeLists(n) ==
    {s \in SeqsUpTo(UNION {ContractChanges(Transaction(n, i))
                           : i \in TxIndices}, Cardinality(TxIndices)) :
        \A i, j \in 1..Len(s) : i # j => s[i].tx.index # s[j].tx.index}

\* BlockContractChanges as decoded from the payload of block n; block is
\* None for a payload without a block.
BlockContractChanges(n) ==
    [block : {Some(Block(n))}, changes : ChangeLists(n)]
NoBlockPayload == [block |-> None, changes |-> <<>>]

\* Cursor strings: the cursor of the k-th upstream message.
CursorOf(k) == <<"cursor@", k>>
\* String -> Vec<u8> (String::into, str::as_bytes) and String::from_utf8.
AsBytes(s) == [utf8 |-> s]
FromUtf8(b) == b.utf8
\* Inner { cursor }
Inner(c) == [cursor |-> c]
\* Vec::new(): the cursor of an extractor that has no stored state.
NoCursor == AsBytes(<<>>)

\* BlockRef.id: the hash of a block as a hex string, with or without the
\* "0x" prefix, or a string that is no hex.
NotHex == <<"zz">>
BlockRefIds ==
    [prefix : {"0x", ""}, digits : {BlockHash(n) : n \in 0..MaxBlock}]
    \cup {[prefix |-> "0x", digits |-> NotHex]}
\* H256::from_str: strips an optional "0x" and parses the hex digits.
H256FromStr(id) ==
    IF id.digits = NotHex
    THEN [ok |-> FALSE, value |-> <<>>]
    ELSE [ok |-> TRUE, value |-> id.digits]

\* BlockIdentifier::Hash, BlockIdentifier::Number
BlockIdHash(h) == [by |-> "Hash", hash |-> h, number |-> 0]
BlockIdNumber(n) == [by |-> "Number", hash |-> <<>>, number |-> n]

\* ------------------------------------------------------------------ store

\* The database: blocks, transactions, accounts, the versioned rows of all
\* row families, and the extraction state's cursor (None: no state row).
EmptyStore ==
    [blocks |-> {}, txs |-> {}, accounts |-> {}, rows |-> {}, cursor |-> None]
\* The transaction a connection has open: the state its statements have
\* produced so far and the result of the closure run in it; once it has
\* ended, the result of the gateway call that ran it.
NoTxn == [open |-> FALSE, view |-> EmptyStore, ok |-> FALSE,
          err |-> NoResult, value |-> <<>>]
Txn(r, v) == [open |-> TRUE, view |-> r.store, ok |-> r.ok, err |-> r.err,
              value |-> v]
\* History of the handler call: the store, the cursor and the number of
\* emitted messages when it was entered, the cursor of its message, and
\* whether it is running or has returned Ok or Err.
Snapshot(s, c, n, mc, st) ==
    [store |-> s, cursor |-> c, emitted |-> n, msg_cursor |-> mc,
     status |-> st]
NoSnapshot == Snapshot(EmptyStore, Inner(NoCursor), 0, <<>>, "none")

\* A versioned row; valid_to is None while the row is currently valid.
Row(fam, key, val, from, to, tx) ==
    [fam |-> fam, key |-> key, val |-> val, valid_from |-> from,
     valid_to |-> to, modify_tx |-> tx]

\* Result<(), StorageError> of a store call made on state s: the state the
\* call leaves and, on failure, the error.
StorageOk(s) == [ok |-> TRUE, store |-> s, err |-> NoResult]
StorageErr(s, kind) == [ok |-> FALSE, store |-> s, err |-> Error(kind, <<>>)]
\* The call panicked after its statements had left the store as s.
Panicked(s, msg) == [ok |-> FALSE, store |-> s, err |-> Error("panic", msg)]

\* get_block: the stored block with that identifier; NotFound on a miss.
BlocksById(s, id) ==
    {b \in s.blocks : IF id.by = "Hash" THEN b.hash = id.hash
                                         ELSE b.number = id.number}
\* upsert_block: a block whose hash is stored already is kept as it is.
upsert_block(s, b) ==
    IF \E x \in s.blocks : x.hash = b.hash
    THEN StorageOk(s)
    ELSE StorageOk([s EXCEPT !.blocks = @ \cup {b}])

\* upsert_tx: the block must be stored; a stored transaction is kept.
upsert_tx(s, t) ==
    IF ~\E b \in s.blocks : b.hash = t.block_hash
    THEN StorageErr(s, "NoRelatedEntity")
    ELSE IF \E x \in s.txs : x.hash = t.hash
         THEN StorageOk(s)
         ELSE StorageOk([s EXCEPT !.txs = @ \cup {t}])

\* The timestamp of the block of the stored transaction with hash h.
TxTs(s, h) ==
    LET t == CHOOSE x \in s.txs : x.hash = h
        b == CHOOSE x \in s.blocks : x.hash = t.block_hash
    IN  b.ts

\* The versioned write of one value: the rows of the identity key that are
\* currently valid are closed at ts, and a new valid row is added.
VersionedWrite(rows, fam, key, val, ts, tx) ==
    {IF r.fam = fam /\ r.key = key /\ r.valid_to = None
        THEN [r EXCEPT !.valid_to = Some(ts)] ELSE r : r \in rows}
    \cup {Row(fam, key, val, ts, None, tx)}

\* The versioned writes of an account's slots, one slot after the other.
RECURSIVE WriteSlots(_, _, _, _, _, _)
WriteSlots(rows, address, slots, todo, ts, tx) ==
    IF todo = {} THEN rows
    ELSE LET k == CHOOSE x \in todo : TRUE
         IN  WriteSlots(
                 VersionedWrite(rows, "contract_storage", <<address, k>>,
                                slots[k], ts, tx),
                 address, slots, todo \ {k}, ts, tx)

\* The versioned writes of an account's slots, balance and code.
WriteAccount(rows, address, slots, balance, code, ts, tx) ==
    LET r1 == WriteSlots(rows, address, slots, DOMAIN slots, ts, tx)
        r2 == IF IsSome(balance)
              THEN VersionedWrite(r1, "account_balance", <<address, 0>>,
                                  balance[1], ts, tx)
              ELSE r1
    IN  IF IsSome(code)
        THEN VersionedWrite(r2, "contract_code", <<address, 0>>,
                            code[1], ts, tx)
        ELSE r2

\* From<&AccountUpdateWithTx> for Account: the account a creation inserts.
Account(u) ==
    [address |-> u.address, slots |-> u.slots,
     balance |-> UnwrapOr(u.balance, 0), code |-> UnwrapOr(u.code, 0),
     creation_tx |-> Some(u.tx.hash)]

\* insert_contract: DuplicateEntry if the account is stored; the account
\* row and its first slot, balance and code rows, stamped with the
\* timestamp of the block of the creation transaction.
insert_contract(s, new) ==
    IF \E a \in s.accounts : a.address = new.address
    THEN StorageErr(s, "DuplicateEntry")
    ELSE IF ~\E t \in s.txs : Some(t.hash) = new.creation_tx
    THEN StorageErr(s, "NoRelatedEntity")
    ELSE LET tx == new.creation_tx[1]
         IN  StorageOk(
               [s EXCEPT
                 !.accounts = @ \cup {[address |-> new.address,
                                       creation_tx |-> new.creation_tx,
                                       deleted_ts |-> None]},
                 !.rows = WriteAccount(@, new.address, new.slots,
                                       Some(new.balance), Some(new.code),
                                       TxTs(s, tx), tx)])

\* update_contracts: the deltas are applied in the order given, each
\* stamped with its transaction; the transaction and the account must be
\* stored.
RECURSIVE update_contracts(_, _)
update_contracts(s, new) ==
    IF new = <<>> THEN StorageOk(s)
    ELSE LET tx == Head(new)[1]
             delta == Head(new)[2]
         IN  IF ~\E t \in s.txs : t.hash = tx
             THEN StorageErr(s, "NotFound")
             ELSE IF ~\E a \in s.accounts : a.address = delta.address
             THEN StorageErr(s, "NotFound")
             ELSE update_contracts(
                    [s EXCEPT !.rows = WriteAccount(@, delta.address,
                                          delta.slots, delta.balance,
                                          delta.code, TxTs(s, tx), tx)],
                    Tail(new))

\* delete_contract(id, at_tx): the account is marked deleted at the
\* timestamp of the block of at_tx, and its slot, balance and code rows
\* that are currently valid are closed at that timestamp; no row is
\* written.  It fails if the account is not stored, was deleted already
\* or the transaction is not stored.
delete_contract(s, address, at_tx) ==
    IF ~\E a \in s.accounts : a.address = address /\ a.deleted_ts = None
    THEN StorageErr(s, "NotFound")
    ELSE IF ~\E t \in s.txs : t.hash = at_tx
    THEN StorageErr(s, "NotFound")
    ELSE LET ts == TxTs(s, at_tx)
         IN  StorageOk(
               [s EXCEPT
                 !.accounts = {IF a.address = address
                               THEN [a EXCEPT !.deleted_ts = Some(ts)]
                               ELSE a : a \in @},
                 !.rows = {IF /\ r.fam \in {"contract_storage",
                                            "account_balance",
                                            "contract_code"}
                              /\ r.key[1] = address
                              /\ r.valid_to = None
                           THEN [r EXCEPT !.valid_to = Some(ts)] ELSE r
                           : r \in @}])

\* Mutant of revert_state: the rows the deleted blocks had closed stay
\* closed.
revert_state_keepClosed(s, to) ==
    IF BlocksById(s, to) = {} THEN StorageErr(s, "NotFound")
    ELSE LET b == CHOOSE x \in BlocksById(s, to) : TRUE
             gone == {x \in s.blocks : x.number > b.number}
             goneTx == {t.hash : t \in {x \in s.txs :
                          \E g \in gone : g.hash = x.block_hash}}
         IN  StorageOk(
               [s EXCEPT
                 !.blocks = @ \ gone,
                 !.txs = {t \in @ : t.hash \notin goneTx},
                 !.accounts = {a \in @ : a.creation_tx = None
                                         \/ a.creation_tx[1] \notin goneTx},
                 !.rows = {r \in @ : r.modify_tx \notin goneTx}])

\* Mutant of revert_state: the block `to` is deleted as well.
revert_state_inclusive(s, to) ==
    IF BlocksById(s, to) = {} THEN StorageErr(s, "NotFound")
    ELSE LET b == CHOOSE x \in BlocksById(s, to) : TRUE
             gone == {x \in s.blocks : x.number >= b.number}
             goneTs == {x.ts : x \in gone}
             goneTx == {t.hash : t \in {x \in s.txs :
                          \E g \in gone : g.hash = x.block_hash}}
             kept == {r \in s.rows : r.modify_tx \notin goneTx}
         IN  StorageOk(
               [s EXCEPT
                 !.blocks = @ \ gone,
                 !.txs = {t \in @ : t.hash \notin goneTx},
                 !.accounts = {a \in @ : a.creation_tx = None
                                         \/ a.creation_tx[1] \notin goneTx},
                 !.rows = {IF r.valid_to # None /\ r.valid_to[1] \in goneTs
                           THEN [r EXCEPT !.valid_to = None] ELSE r
                           : r \in kept}])

\* revert_state: the blocks above `to` are deleted, and with them their
\* transactions and every row and account that references one of these;
\* the rows that were closed at the timestamp of a deleted block are valid
\* again.  NotFound if `to` is not stored.
revert_state(s, to) ==
    IF BlocksById(s, to) = {} THEN StorageErr(s, "NotFound")
    ELSE LET b == CHOOSE x \in BlocksById(s, to) : TRUE
             gone == {x \in s.blocks : x.number > b.number}
             goneTs == {x.ts : x \in gone}
             goneTx == {t.hash : t \in {x \in s.txs :
                          \E g \in gone : g.hash = x.block_hash}}
             kept == {r \in s.rows : r.modify_tx \notin goneTx}
         IN  StorageOk(
               [s EXCEPT
                 !.blocks = @ \ gone,
                 !.txs = {t \in @ : t.hash \notin goneTx},
                 !.accounts = {a \in @ : a.creation_tx = None
                                         \/ a.creation_tx[1] \notin goneTx},
                 !.rows = {IF r.valid_to # None /\ r.valid_to[1] \in goneTs
                           THEN [r EXCEPT !.valid_to = None] ELSE r
                           : r \in kept}])

\* ExtractionState::new(name, chain, None, cursor)
ExtractionState(c) ==
    [name |-> ExtractorId.name, chain |-> ExtractorId.chain, cursor |-> c]
\* save_state: upsert of the extractor's state row.
save_state(s, state) == StorageOk([s EXCEPT !.cursor = Some(state.cursor)])
\* get_state: the state row; NotFound if there is none.
get_state(s) ==
    IF s.cursor = None THEN [ok |-> FALSE, cursor |-> NoCursor]
    ELSE [ok |-> TRUE, cursor |-> s.cursor[1]]

\* The rows of a family and key that are valid at the end of the block
\* with timestamp ts.
ValidAt(rows, fam, key, ts) ==
    {r \in rows : /\ r.fam = fam /\ r.key = key /\ r.valid_from <= ts
                  /\ (r.valid_to = None \/ r.valid_to[1] > ts)}

\* get_account_delta(chain, None, target): for every slot, balance and code
\* that changed after the target block (a row of it became valid or was
\* closed after the block), its value as of that block (0 if it had
\* none).
get_account_delta(s, b) ==
    LET changed == {<<r.fam, r.key>> : r \in {x \in s.rows :
                      /\ \/ x.valid_from > b.ts
                         \/ x.valid_to # None /\ x.valid_to[1] > b.ts
                      /\ x.fam \in {"contract_storage", "account_balance",
                                    "contract_code"}}}
    IN  {[address |-> k[2][1], fam |-> k[1], key |-> k[2],
          val |-> IF ValidAt(s.rows, k[1], k[2], b.ts) = {} THEN 0
                  ELSE (CHOOSE r \in ValidAt(s.rows, k[1], k[2], b.ts)
                          : TRUE).val]
         : k \in changed}

\* ---------------------------------------------------------- normalisation

\* Result<T, ExtractionError>
ExtractOk(v) == [ok |-> TRUE, value |-> v, err |-> NoResult]
ExtractErr(e) == [ok |-> FALSE, value |-> <<>>, err |-> e]

\* A payload whose block does not parse (a hash that is no 32 bytes).
MalformedPayload ==
    [block |-> Some([number |-> 0, hash |-> NotHex, ts |-> 0]),
     changes |-> <<>>]

\* tx_updates.sort_unstable_by_key(|update| update.tx.index): the orders an
\* unstable sort can leave the updates in.
SortedByTxIndex(s) ==
    {[i \in 1..Len(s) |-> s[p[i]]] :
        p \in {q \in Orders(1..Len(s)) :
                 \A i, j \in 1..Len(s) :
                    i < j => s[q[i]].tx.index <= s[q[j]].tx.index}}

\* BlockStateChanges::try_from_message: the results it can return.
try_from_message(msg) ==
    IF msg.block = None THEN {ExtractErr(Error("Empty", <<>>))}
    ELSE IF msg.block[1].hash = NotHex
    THEN {ExtractErr(Error("DecodeError", <<"block hash">>))}
    ELSE {ExtractOk([block |-> msg.block[1], tx_updates |-> u]) :
             u \in SortedByTxIndex(msg.changes)}

\* Mutant of merge: the slots of self take precedence.
merge_selfSlots(self, other) ==
    IF self.tx.block_hash # other.tx.block_hash
    THEN ExtractErr(Error("Unknown", <<"different blocks">>))
    ELSE IF self.tx.hash = other.tx.hash
    THEN ExtractErr(Error("Unknown", <<"same transaction">>))
    ELSE IF self.tx.index > other.tx.index
    THEN ExtractErr(Error("Unknown", <<"lower transaction index">>))
    ELSE IF self.address # other.address
    THEN ExtractErr(Error("Unknown", <<"differing identities">>))
    ELSE ExtractOk(
           [self EXCEPT
             !.tx = other.tx,
             !.slots = [k \in DOMAIN self.slots \cup DOMAIN other.slots |->
                          IF k \in DOMAIN self.slots THEN self.slots[k]
                          ELSE other.slots[k]],
             !.balance = IF IsSome(other.balance) THEN other.balance
                         ELSE self.balance,
             !.code = IF IsSome(other.code) THEN other.code ELSE self.code])

\* Mutant of merge: updates of one transaction are merged.
merge_sameTx(self, other) ==
    IF self.tx.block_hash # other.tx.block_hash
    THEN ExtractErr(Error("Unknown", <<"different blocks">>))
    ELSE IF self.tx.index > other.tx.index
    THEN ExtractErr(Error("Unknown", <<"lower transaction index">>))
    ELSE IF self.address # other.address
    THEN ExtractErr(Error("Unknown", <<"differing identities">>))
    ELSE ExtractOk(
           [self EXCEPT
             !.tx = other.tx,
             !.slots = [k \in DOMAIN self.slots \cup DOMAIN other.slots |->
                          IF k \in DOMAIN other.slots THEN other.slots[k]
                          ELSE self.slots[k]],
             !.balance = IF IsSome(other.balance) THEN other.balance
                         ELSE self.balance,
             !.code = IF IsSome(other.code) THEN other.code ELSE self.code])

\* Mutant of merge: an unset balance of other erases the balance of
\* self.
merge_eraseBalance(self, other) ==
    IF self.tx.block_hash # other.tx.block_hash
    THEN ExtractErr(Error("Unknown", <<"different blocks">>))
    ELSE IF self.tx.hash = other.tx.hash
    THEN ExtractErr(Error("Unknown", <<"same transaction">>))
    ELSE IF self.tx.index > other.tx.index
    THEN ExtractErr(Error("Unknown", <<"lower transaction index">>))
    ELSE IF self.address # other.address
    THEN ExtractErr(Error("Unknown", <<"differing identities">>))
    ELSE ExtractOk(
           [self EXCEPT
             !.tx = other.tx,
             !.slots = [k \in DOMAIN self.slots \cup DOMAIN other.slots |->
                          IF k \in DOMAIN other.slots THEN other.slots[k]
                          ELSE self.slots[k]],
             !.balance = other.balance,
             !.code = IF IsSome(other.code) THEN other.code ELSE self.code])

\* AccountUpdateWithTx::merge with AccountUpdate::merge
merge(self, other) ==
    IF self.tx.block_hash # other.tx.block_hash
    THEN ExtractErr(Error("Unknown", <<"different blocks">>))
    ELSE IF self.tx.hash = other.tx.hash
    THEN ExtractErr(Error("Unknown", <<"same transaction">>))
    ELSE IF self.tx.index > other.tx.index
    THEN ExtractErr(Error("Unknown", <<"lower transaction index">>))
    ELSE IF self.address # other.address
    THEN ExtractErr(Error("Unknown", <<"differing identities">>))
    ELSE ExtractOk(
           [self EXCEPT
             !.tx = other.tx,
             !.slots = [k \in DOMAIN self.slots \cup DOMAIN other.slots |->
                          IF k \in DOMAIN other.slots THEN other.slots[k]
                          ELSE self.slots[k]],
             !.balance = IF IsSome(other.balance) THEN other.balance
                         ELSE self.balance,
             !.code = IF IsSome(other.code) THEN other.code ELSE self.code])

\* BlockStateChanges::aggregate_updates: the loop over tx_updates.  acc is
\* the HashMap from an address to its update; an update of an address in
\* the map is merged into the entry, the first failing merge is returned.
RECURSIVE MergeInto(_, _)
MergeInto(acc, rest) ==
    IF rest = <<>> THEN ExtractOk(acc)
    ELSE LET update == Head(rest)
         IN  IF update.address \in DOMAIN acc
             THEN LET r == merge(acc[update.address], update)
                  IN  IF r.ok
                      THEN MergeInto([acc EXCEPT ![update.address] = r.value],
                                     Tail(rest))
                      ELSE r
             ELSE MergeInto(Put(acc, update.address, update), Tail(rest))
\* BlockStateChanges::aggregate_updates: one update per address.
aggregate_updates(msg) ==
    LET r == MergeInto(EmptyMap, msg.tx_updates)
    IN  IF r.ok
        THEN ExtractOk([block |-> msg.block, account_updates |-> Range(r.value)])
        ELSE r

\* ---------------------------------------------------------------- gateway

\* The store calls that can fail for a reason outside the program (the
\* connection is lost, the database refuses the statement).
Faults ==
    {"none", "upsert_block", "upsert_tx", "insert_contract",
     "update_contracts", "get_block", "get_account_delta", "revert_state",
     "save_state"}
Call(op, fault, s, r) == IF fault = op THEN StorageErr(s, "Unexpected") ELSE r

\* AmbientPgGateway::save_cursor
save_cursor(s, new_cursor, fault) ==
    Call("save_state", fault, s,
         save_state(s, ExtractionState(AsBytes(new_cursor))))

\* AmbientPgGateway::forward, the loop over changes.tx_updates
RECURSIVE ForwardTxUpdates(_, _, _)
ForwardTxUpdates(s, updates, fault) ==
    IF updates = <<>> THEN StorageOk(s)
    ELSE LET u == Head(updates)
             r1 == Call("upsert_tx", fault, s, upsert_tx(s, u.tx))
             r2 == IF r1.ok /\ is_creation(u)
                   THEN Call("insert_contract", fault, r1.store,
                             insert_contract(r1.store, Account(u)))
                   ELSE r1
         IN  IF r2.ok THEN ForwardTxUpdates(r2.store, Tail(updates), fault)
             ELSE r2

\* The (tx hash, update) pairs forward passes to update_contracts.
UpdatesOf(tx_updates) ==
    LET ups == SelectSeq(tx_updates, is_update)
    IN  [i \in 1..Len(ups) |-> <<ups[i].tx.hash, ups[i]>>]

\* AmbientPgGateway::forward on the connection's state s: the state it
\* leaves on the connection and its result.
forward(s, changes, new_cursor, fault) ==
    LET r1 == Call("upsert_block", fault, s, upsert_block(s, changes.block))
        r2 == IF r1.ok
              THEN ForwardTxUpdates(r1.store, changes.tx_updates, fault)
              ELSE r1
        r3 == IF r2.ok
              THEN Call("update_contracts", fault, r2.store,
                        update_contracts(r2.store,
                                         UpdatesOf(changes.tx_updates)))
              ELSE r2
    IN  IF r3.ok THEN save_cursor(r3.store, new_cursor, fault) ELSE r3

\* BlockAccountChanges::new
BlockAccountChanges(block, account_updates) ==
    [block |-> block, account_updates |-> account_updates]

\* Mutant of backward: the cursor is saved but revert_contract_state is not
\* called.
backward_noRevert(s, to, new_cursor, fault) ==
    LET r == save_cursor(s, new_cursor, fault)
    IN  [ok |-> r.ok, store |-> r.store, err |-> r.err,
         value |-> BlockAccountChanges(<<>>, {})]

\* AmbientPgGateway::backward on the connection's state s: the state it
\* leaves, its result and, on success, the changes it returns.
backward(s, to, new_cursor, fault) ==
    LET found == Call("get_block", fault, s,
                      IF BlocksById(s, to) = {} THEN StorageErr(s, "NotFound")
                      ELSE StorageOk(s))
        block == CHOOSE b \in BlocksById(s, to) : TRUE
        account_updates ==
            {u \in get_account_delta(s, block) : u.address = AMBIENT_CONTRACT}
        delta == IF found.ok
                 THEN Call("get_account_delta", fault, s, StorageOk(s))
                 ELSE found
        r1 == IF delta.ok
              THEN Call("revert_state", fault, s, revert_state(s, to))
              ELSE delta
        r2 == IF r1.ok THEN save_cursor(r1.store, new_cursor, fault) ELSE r1
    IN  [ok |-> r2.ok, store |-> r2.store, err |-> r2.err,
         value |-> IF r2.ok THEN BlockAccountChanges(block, account_updates)
                   ELSE BlockAccountChanges(<<>>, {})]

\* ------------------------------------------------------- protocol state

\* The protocol components the store holds, by external id, with their
\* database ids in the order of their insertion (state1 and state3 of
\* ethereum, state2 of starknet; the lookup by external id takes no
\* chain), the attributes of a component's state and the tokens the store
\* holds (WETH and USDC).
ProtocolComponents == {"state1", "state3", "state2"}
ComponentDbId(c) == IF c = "state1" THEN 1 ELSE IF c = "state3" THEN 2 ELSE 3
\* The chain of a stored component (protocol_component.chain_id).
ComponentChain(c) == IF c = "state2" THEN "starknet" ELSE "ethereum"
\* The components of a chain: protocol_component joined with chain and
\* filtered by chain::id.eq(chain_id).
ComponentsOf(chain) == {c \in ProtocolComponents : ComponentChain(c) = chain}
\* The place of an external id in the order of strings (Ord for String).
ExternalIdOrd(c) == IF c = "state1" THEN 1 ELSE IF c = "state2" THEN 2 ELSE 3
Attributes == {1}
Tokens == {1, 2}

\* ProtocolStateDelta
ProtocolStateDelta(component_id, updated_attributes, deleted_attributes) ==
    [component_id |-> component_id,
     updated_attributes |-> updated_attributes,
     deleted_attributes |-> deleted_attributes]

\* The stored transaction with hash h.
TxByHash(s, h) == CHOOSE x \in s.txs : x.hash = h

\* ProtocolStateDelta::to_storage: one new row per updated attribute, valid
\* from the timestamp of the transaction's block, each paired with the
\* index of the transaction.
RECURSIVE to_storage(_, _, _, _)
to_storage(delta, todo, ts, t) ==
    IF todo = {} THEN <<>>
    ELSE LET a == CHOOSE x \in todo : \A y \in todo : x <= y
         IN  <<[row |-> Row("protocol_state", <<delta.component_id, a>>,
                            delta.updated_attributes[a], ts, None, t.hash),
                index |-> t.index]>>
             \o to_storage(delta, todo \ {a}, ts, t)

\* update_protocol_states, `for attr in &state.deleted_attributes`: the
\* stored rows of the component's deleted attributes that are valid are
\* closed at ts.
CloseDeleted(rows, delta, ts) ==
    {IF /\ r.fam = "protocol_state"
        /\ r.key[1] = delta.component_id
        /\ r.key[2] \in delta.deleted_attributes
        /\ r.valid_to = None
     THEN [r EXCEPT !.valid_to = Some(ts)] ELSE r : r \in rows}

\* update_protocol_states, `for state in new`: the store with the rows of
\* deleted attributes closed, and state_data.
RECURSIVE CollectStateData(_, _, _)
CollectStateData(s, new, state_data) ==
    IF new = <<>> THEN [ok |-> TRUE, store |-> s, err |-> NoResult,
                        state_data |-> state_data]
    ELSE LET tx == Head(new)[1]
             delta == Head(new)[2]
         IN  IF \/ ~\E t \in s.txs : t.hash = tx
                \/ delta.component_id \notin ProtocolComponents
             THEN [ok |-> FALSE, store |-> s,
                   err |-> Error("NotFound", <<>>), state_data |-> <<>>]
             ELSE CollectStateData(
                    [s EXCEPT !.rows = CloseDeleted(@, delta, TxTs(s, tx))],
                    Tail(new),
                    state_data
                    \o to_storage(delta, DOMAIN delta.updated_attributes,
                                  TxTs(s, tx), TxByHash(s, tx)))

\* The comparison of state_data.sort_by: protocol_component_id, then
\* attribute_name, then the index of the transaction.
StateDataLeq(a, b) ==
    LET ca == ComponentDbId(a.row.key[1])
        cb == ComponentDbId(b.row.key[1])
    IN  IF ca # cb THEN ca < cb
        ELSE IF a.row.key[2] # b.row.key[2] THEN a.row.key[2] < b.row.key[2]
        ELSE a.index <= b.index

\* state_data.sort_by(..), a stable sort.
RECURSIVE SortStateData(_)
SortStateData(d) ==
    IF d = <<>> THEN <<>>
    ELSE LET sorted == SortStateData(SubSeq(d, 1, Len(d) - 1))
             x == d[Len(d)]
             k == Cardinality({i \in 1..Len(sorted) :
                                 StateDataLeq(sorted[i], x)})
         IN  SubSeq(sorted, 1, k) \o <<x>> \o SubSeq(sorted, k + 1, Len(sorted))

\* "Invalidate older states within the new state data": a new row that is
\* followed by a new row of the same component and attribute is closed at
\* the valid_from of that row.
InvalidateOlder(d) ==
    [i \in 1..Len(d) |->
        IF i < Len(d) /\ d[i].row.key = d[i + 1].row.key
        THEN [d[i].row EXCEPT !.valid_to = Some(d[i + 1].row.valid_from)]
        ELSE d[i].row]

\* update_protocol_states
update_protocol_states(s, new) ==
    LET c == CollectStateData(s, new, <<>>)
        state_data == InvalidateOlder(SortStateData(c.state_data))
    IN  IF ~c.ok THEN [ok |-> FALSE, store |-> c.store, err |-> c.err]
        ELSE StorageOk([c.store EXCEPT
                          !.rows = @ \cup {state_data[i] :
                                             i \in 1..Len(state_data)}])

\* ComponentBalance
ComponentBalance(component_id, token, new_balance, modify_tx) ==
    [component_id |-> component_id, token |-> token,
     new_balance |-> new_balance, modify_tx |-> modify_tx]

\* apply_versioning: the new rows are applied in their order, each closing
\* the valid row of its identity key.
RECURSIVE apply_versioning(_, _)
apply_versioning(rows, new) ==
    IF new = <<>> THEN rows
    ELSE apply_versioning(
           VersionedWrite(rows, Head(new).fam, Head(new).key, Head(new).val,
                          Head(new).valid_from, Head(new).modify_tx),
           Tail(new))

\* add_component_balances, token_ids[..], transaction_ids[..] and
\* protocol_component_ids[..]: some balance names a token, a transaction
\* or a component the store does not hold.
HasMissingId(s, component_balances) ==
    \E i \in 1..Len(component_balances) :
       \/ component_balances[i].token \notin Tokens
       \/ ~\E t \in s.txs : t.hash = component_balances[i].modify_tx
       \/ component_balances[i].component_id \notin ProtocolComponents

\* add_component_balances that stamps each row with the timestamp of the
\* block of its modify_tx.
add_component_balances_txTs(s, component_balances, block_ts) ==
    LET new == [i \in 1..Len(component_balances) |->
                  Row("component_balance",
                      <<component_balances[i].component_id,
                        component_balances[i].token>>,
                      component_balances[i].new_balance,
                      TxTs(s, component_balances[i].modify_tx), None,
                      component_balances[i].modify_tx)]
    IN  IF HasMissingId(s, component_balances)
        THEN Panicked(s, "no entry found for key")
        ELSE StorageOk([s EXCEPT !.rows = apply_versioning(@, new)])

\* add_component_balances: the ids of the tokens, transactions and
\* components of the balances are looked up, and each balance indexes the
\* three maps, which panics on a token, transaction or component that is
\* not stored, before a row is written; the rows are then versioned and
\* inserted.
add_component_balances(s, component_balances, block_ts) ==
    LET new == [i \in 1..Len(component_balances) |->
                  Row("component_balance",
                      <<component_balances[i].component_id,
                        component_balances[i].token>>,
                      component_balances[i].new_balance, block_ts, None,
                      component_balances[i].modify_tx)]
    IN  IF HasMissingId(s, component_balances)
        THEN Panicked(s, "no entry found for key")
        ELSE StorageOk([s EXCEPT !.rows = apply_versioning(@, new)])

\* ------------------------------------------------------------------- Init

Init ==
    /\ pc = "select"
    /\ cur = NoItem
    /\ outcome = NoOutcome
    /\ ctrlQ = <<>>
    /\ subs = EmptyMap
    /\ order = <<>>
    /\ toRemove = {}
    /\ buf = [c \in Chans |-> <<>>]
    /\ rxAlive = [c \in Chans |-> FALSE]
    /\ created = 0
    /\ received = [c \in Chans |-> <<>>]
    /\ sent = [c \in Chans |-> <<>>]
    /\ emitted = <<>>
    /\ handled = 0
    /\ result = NoResult
    /\ stopResults = <<>>
    /\ registered = [c \in Chans |-> -1]
    /\ assigned = <<>>
    /\ store = EmptyStore
    /\ txn = NoTxn
    /\ cursor = Inner(NoCursor)
    /\ head = 0
    /\ pre = NoSnapshot
    /\ calls = <<>>

\* The runner task returns r: self is dropped, and with it control_rx (the
\* control channel closes, what it still buffers is dropped) and the
\* subscriptions table (every Sender in it is dropped).
Terminate(r) ==
    /\ pc' = "done"
    /\ result' = r
    /\ ctrlQ' = <<>>
    /\ subs' = EmptyMap
    /\ order' = <<>>
    /\ toRemove' = {}

\* Variable groups for UNCHANGED.
runnerVars == <<pc, cur, outcome, subs, order, toRemove, result>>
chanVars == <<buf, rxAlive, received, sent>>
histVars == <<emitted, handled, registered, assigned>>
extVars == <<store, txn, cursor, head, pre, calls>>

\* ---------------------------------------------------------------- handles

\* What Sender::send on the control channel does for a caller that is not
\* kept waiting: an error once the receiver is gone, the message queued
\* while there is room.  A caller that finds the channel full waits.
CtrlClosed == pc = "done"
CtrlHasRoom == Len(ctrlQ) < CtrlCapacity

ChannelClosed == Error("Unknown", <<"channel closed">>)

\* ExtractorHandle::stop
HandleStop ==
    /\ Len(stopResults) < MaxStops
    /\ \/ /\ CtrlClosed
          /\ stopResults' = Append(stopResults, ChannelClosed)
          /\ UNCHANGED ctrlQ
       \/ /\ ~CtrlClosed
          /\ CtrlHasRoom
          /\ ctrlQ' = Append(ctrlQ, Stop)
          /\ stopResults' = Append(stopResults, OkResult)
    /\ UNCHANGED <<runnerVars, chanVars, histVars, created>>
    /\ UNCHANGED extVars

\* ExtractorHandle::subscribe: a new channel of capacity 1 whose Sender is
\* sent to the runner and whose Receiver is returned to the caller.
SubscribeUpTo(n) ==
    /\ created < n
    /\ ~CtrlClosed
    /\ CtrlHasRoom
    /\ created' = created + 1
    /\ ctrlQ' = Append(ctrlQ, Subscribe(created + 1))
    /\ rxAlive' = [rxAlive EXCEPT ![created + 1] = TRUE]
    /\ UNCHANGED <<runnerVars, buf, received, sent, histVars, stopResults>>
    /\ UNCHANGED extVars

HandleSubscribe == SubscribeUpTo(MaxChans)

LiveSubscribe == SubscribeUpTo(LiveChans)

\* ------------------------------------------------------------ subscribers

\* Receiver::recv taking the buffered message.
SubRecv(c) ==
    /\ rxAlive[c]
    /\ buf[c] # <<>>
    /\ received' = [received EXCEPT ![c] = Append(@, Head(buf[c]))]
    /\ buf' = [buf EXCEPT ![c] = Tail(@)]
    /\ UNCHANGED <<runnerVars, ctrlQ, rxAlive, sent, histVars, created,
                   stopResults>>
    /\ UNCHANGED extVars

\* The subscriber drops its Receiver: the channel closes and what it
\* buffers is dropped.
SubDrop(c) ==
    /\ rxAlive[c]
    /\ rxAlive' = [rxAlive EXCEPT ![c] = FALSE]
    /\ buf' = [buf EXCEPT ![c] = <<>>]
    /\ UNCHANGED <<runnerVars, ctrlQ, received, sent, histVars, created,
                   stopResults>>
    /\ UNCHANGED extVars


\* ----------------------------------------------------------------- runner

\* select!: the control branch yields the next control message.
RecvCtrl ==
    /\ pc = "select"
    /\ ctrlQ # <<>>
    /\ cur' = Head(ctrlQ)
    /\ ctrlQ' = Tail(ctrlQ)
    /\ pc' = "ctrl"
    /\ UNCHANGED <<outcome, subs, order, toRemove, result, chanVars,
                   histVars, created, stopResults>>
    /\ UNCHANGED extVars

\* Mutant of DoStop: the Stop arm leaves the match without returning, and
\* the loop goes on.
DoStop_continue ==
    /\ pc = "ctrl"
    /\ cur.type = "Stop"
    /\ cur' = NoItem
    /\ pc' = "select"
    /\ UNCHANGED <<outcome, ctrlQ, subs, order, toRemove, result, chanVars,
                   histVars, created, stopResults>>
    /\ UNCHANGED extVars

\* ControlMessage::Stop => return Ok(())
DoStop ==
    /\ pc = "ctrl"
    /\ cur.type = "Stop"
    /\ Terminate(OkResult)
    /\ UNCHANGED <<cur, outcome, chanVars, histVars, created, stopResults>>
    /\ UNCHANGED extVars

\* let subscriber_id = self.subscriptions.lock().await.len() as u64
SubscriberId(table) == Cardinality(DOMAIN table)

\* ExtractorRunner::subscribe
DoSubscribe ==
    /\ pc = "ctrl"
    /\ cur.type = "Subscribe"
    /\ subs' = Put(subs, SubscriberId(subs), cur.ch)
    /\ registered' = [registered EXCEPT ![cur.ch] = Len(emitted)]
    /\ assigned' = Append(assigned, SubscriberId(subs))
    /\ cur' = NoItem
    /\ pc' = "select"
    /\ UNCHANGED <<outcome, ctrlQ, order, toRemove, result, chanVars,
                   emitted, handled, created, stopResults>>
    /\ UNCHANGED extVars

\* select!: the stream branch yields Some(Ok(New(..))) or Some(Ok(Undo(..))).
TakeUpstream ==
    /\ pc = "select"
    /\ handled < MaxUpstream
    /\ \E t \in {"New", "Undo"} : cur' = Item(t)
    /\ handled' = handled + 1
    /\ pc' = "handle"
    /\ UNCHANGED <<outcome, ctrlQ, subs, order, toRemove, result, chanVars,
                   emitted, registered, assigned, created, stopResults>>
    /\ UNCHANGED extVars

\* Mutant of StreamEnd: the end of the stream leaves the loop and the task
\* returns success.
StreamEnd_ok ==
    /\ pc = "select"
    /\ cur' = Item("End")
    /\ Terminate(OkResult)
    /\ UNCHANGED <<outcome, chanVars, histVars, created, stopResults>>
    /\ UNCHANGED extVars

\* select!: the stream branch yields None.
StreamEnd ==
    /\ pc = "select"
    /\ cur' = Item("End")
    /\ Terminate(Error("SubstreamsError", StreamEndedMsg(ExtractorId)))
    /\ UNCHANGED <<outcome, chanVars, histVars, created, stopResults>>
    /\ UNCHANGED extVars

\* select!: the stream branch yields Some(Err(err)).
StreamError ==
    /\ pc = "select"
    /\ \E m \in UpstreamErrors :
          /\ cur' = StreamErr(m)
          /\ Terminate(Error("SubstreamsError", m))
    /\ UNCHANGED <<outcome, chanVars, histVars, created, stopResults>>
    /\ UNCHANGED extVars

\* self.extractor.handle_tick_scoped_data(data).await and
\* self.extractor.handle_revert(undo_signal).await: the extractor does its
\* database work and returns Ok(Some(msg)), Ok(None) or Err(err).
ExtractorReturn ==
    /\ pc = "handle"
    /\ \E o \in {Outcome("Some", NoResult), Outcome("None", NoResult)}
                \cup {Outcome("Err", e) : e \in HandlerErrors} :
          outcome' = o
    /\ pc' = "match"
    /\ UNCHANGED <<cur, ctrlQ, subs, order, toRemove, result, chanVars,
                   histVars, created, stopResults>>
    /\ UNCHANGED extVars

\* Ok(Some(msg)) => Self::propagate_msg(&self.subscriptions, msg).await,
\* up to the start of the iteration over the locked table.
MatchSome ==
    /\ pc = "match"
    /\ outcome.kind = "Some"
    /\ emitted' = Append(emitted, Message(handled))
    /\ \E s \in Orders(DOMAIN subs) : order' = s
    /\ toRemove' = {}
    /\ cur' = NoItem
    /\ outcome' = NoOutcome
    /\ pc' = "fanout"
    /\ UNCHANGED <<ctrlQ, subs, result, chanVars, handled, registered,
                   assigned, created, stopResults>>
    /\ UNCHANGED extVars

\* Ok(None) => nothing to propagate
MatchNone ==
    /\ pc = "match"
    /\ outcome.kind = "None"
    /\ cur' = NoItem
    /\ outcome' = NoOutcome
    /\ pc' = "select"
    /\ UNCHANGED <<ctrlQ, subs, order, toRemove, result, chanVars, histVars,
                   created, stopResults>>
    /\ UNCHANGED extVars

\* Mutant of MatchErr: the error is logged and the loop goes on.
MatchErr_continue ==
    /\ pc = "match"
    /\ outcome.kind = "Err"
    /\ cur' = NoItem
    /\ outcome' = NoOutcome
    /\ pc' = "select"
    /\ UNCHANGED <<ctrlQ, subs, order, toRemove, result, chanVars, histVars,
                   created, stopResults>>
    /\ UNCHANGED extVars

\* Err(err) => return Err(err)
MatchErr ==
    /\ pc = "match"
    /\ outcome.kind = "Err"
    /\ Terminate(outcome.err)
    /\ UNCHANGED <<cur, outcome, chanVars, histVars, created, stopResults>>
    /\ UNCHANGED extVars

\* The subscriber the fan-out is at, and its channel.
Target == Head(order)
TargetChan == subs[Target]

\* Mutant of FanoutSend: a channel that keeps only the latest message, so a
\* send to a full channel replaces what is buffered instead of waiting.
FanoutSend_overwrite ==
    /\ pc = "fanout"
    /\ order # <<>>
    /\ \/ /\ ~rxAlive[TargetChan]
          /\ toRemove' = toRemove \cup {Target}
          /\ UNCHANGED <<buf, sent>>
       \/ /\ rxAlive[TargetChan]
          /\ buf' = [buf EXCEPT ![TargetChan] = <<Last(emitted)>>]
          /\ sent' = [sent EXCEPT ![TargetChan] = Append(@, Last(emitted))]
          /\ UNCHANGED toRemove
    /\ order' = Tail(order)
    /\ UNCHANGED <<pc, cur, outcome, ctrlQ, subs, result, rxAlive, received,
                   histVars, created, stopResults>>
    /\ UNCHANGED extVars

\* Mutant of FanoutSend: try_send instead of send, so a subscriber whose
\* channel is full is passed over instead of waited for.
FanoutSend_skipFull ==
    /\ pc = "fanout"
    /\ order # <<>>
    /\ \/ /\ ~rxAlive[TargetChan]
          /\ toRemove' = toRemove \cup {Target}
          /\ UNCHANGED <<buf, sent>>
       \/ /\ rxAlive[TargetChan]
          /\ Len(buf[TargetChan]) < SubCapacity
          /\ buf' = [buf EXCEPT ![TargetChan] = Append(@, Last(emitted))]
          /\ sent' = [sent EXCEPT ![TargetChan] = Append(@, Last(emitted))]
          /\ UNCHANGED toRemove
       \/ /\ rxAlive[TargetChan]
          /\ Len(buf[TargetChan]) >= SubCapacity
          /\ UNCHANGED <<buf, sent, toRemove>>
    /\ order' = Tail(order)
    /\ UNCHANGED <<pc, cur, outcome, ctrlQ, subs, result, rxAlive, received,
                   histVars, created, stopResults>>
    /\ UNCHANGED extVars

\* Mutant of FanoutSend: the first failed send ends the iteration.
FanoutSend_abortOnError ==
    /\ pc = "fanout"
    /\ order # <<>>
    /\ \/ /\ ~rxAlive[TargetChan]
          /\ toRemove' = toRemove \cup {Target}
          /\ order' = <<>>
          /\ UNCHANGED <<buf, sent>>
       \/ /\ rxAlive[TargetChan]
          /\ Len(buf[TargetChan]) < SubCapacity
          /\ buf' = [buf EXCEPT ![TargetChan] = Append(@, Last(emitted))]
          /\ sent' = [sent EXCEPT ![TargetChan] = Append(@, Last(emitted))]
          /\ order' = Tail(order)
          /\ UNCHANGED toRemove
    /\ UNCHANGED <<pc, cur, outcome, ctrlQ, subs, result, rxAlive, received,
                   histVars, created, stopResults>>
    /\ UNCHANGED extVars

\* sender.send(arced_message.clone()).await for the subscriber the
\* iteration is at: Err when its receiver is gone, the message queued while
\* there is room; the send waits while the channel is full.
FanoutSend ==
    /\ pc = "fanout"
    /\ order # <<>>
    /\ \/ /\ ~rxAlive[TargetChan]
          /\ toRemove' = toRemove \cup {Target}
          /\ UNCHANGED <<buf, sent>>
       \/ /\ rxAlive[TargetChan]
          /\ Len(buf[TargetChan]) < SubCapacity
          /\ buf' = [buf EXCEPT ![TargetChan] = Append(@, Last(emitted))]
          /\ sent' = [sent EXCEPT ![TargetChan] = Append(@, Last(emitted))]
          /\ UNCHANGED toRemove
    /\ order' = Tail(order)
    /\ UNCHANGED <<pc, cur, outcome, ctrlQ, subs, result, rxAlive, received,
                   histVars, created, stopResults>>
    /\ UNCHANGED extVars

\* for counter in to_remove { subscribers.remove(&counter); }
AfterRemoval(table, rm) == Restrict(table, DOMAIN table \ rm)

\* End of propagate_msg: the marked subscribers are removed, the lock is
\* released and the runner is back at its select!.
FanoutEnd ==
    /\ pc = "fanout"
    /\ order = <<>>
    /\ subs' = AfterRemoval(subs, toRemove)
    /\ toRemove' = {}
    /\ pc' = "select"
    /\ UNCHANGED <<cur, outcome, ctrlQ, order, result, chanVars, histVars,
                   created, stopResults>>
    /\ UNCHANGED extVars

RunnerStep ==
    \/ RecvCtrl
    \/ DoStop
    \/ DoSubscribe
    \/ ExtractorReturn
    \/ MatchSome
    \/ MatchNone
    \/ MatchErr
    \/ FanoutSend
    \/ FanoutEnd

\* Every step but a subscribe() call.
OtherStep ==
    \/ HandleStop
    \/ \E c \in Chans : SubRecv(c)
    \/ \E c \in Chans : SubDrop(c)
    \/ RunnerStep
    \/ TakeUpstream
    \/ StreamEnd
    \/ StreamError

Next == HandleSubscribe \/ OtherStep

Spec == Init /\ [][Next]_vars

LiveNext == LiveSubscribe \/ OtherStep

\* The runner task is scheduled: a step of its own that can be taken is
\* eventually taken (the extractor's database work returns, a send that
\* need not wait completes), and select!, which polls its ready branches
\* in random order, does not pass over a waiting control message for ever.
\* Nothing makes the stream yield, a handle call, or a subscriber receive
\* or drop.
FairSpec ==
    Init /\ [][LiveNext]_vars /\ WF_vars(RunnerStep) /\ SF_vars(RecvCtrl)

\* ------------------------------------------------------------- extractor

\* BlockScopedData { cursor, output } and
\* BlockUndoSignal { last_valid_block, last_valid_cursor }
BlockScopedData(c, payload) ==
    [type |-> "New", ch |-> 0, err |-> <<>>, cursor |-> c,
     payload |-> payload, last_valid_block |-> None]
BlockUndoSignal(ref, c) ==
    [type |-> "Undo", ch |-> 0, err |-> <<>>, cursor |-> c,
     payload |-> NoBlockPayload, last_valid_block |-> ref]
BlockRef(id, n) == [id |-> id, number |-> n]

\* The block references an Undo can carry while the upstream is at block h:
\* none, one that is no hex, or the reference of a block up to h.
UndoRefs(h) ==
    {None}
    \cup {Some(BlockRef(x[1], x[2])) :
            x \in {y \in BlockRefIds \X (0..h) :
                      \/ y[1].digits = BlockHash(y[2])
                      \/ y[1].digits = NotHex /\ y[2] = 0}}

\* Mutant of update_cursor: the new cursor is not stored.
update_cursor_keep(c) == cursor

\* AmbientContractExtractor::update_cursor: the value of Inner.cursor after.
update_cursor(c) == Inner(AsBytes(c))
\* Extractor::get_cursor
get_cursor == FromUtf8(cursor.cursor)

\* impl From<StorageError> for ExtractionError
FromStorageError(e) == Error("Storage", <<e.kind>>)

\* Mutant of TransactionEnd: the closure's statements run on the connection
\* in autocommit mode, each one committed as it is executed.
TransactionEnd_autocommit(committed, closure_ok, commit_ok, view) == view

\* conn.transaction(..): the committed state after the transaction ended.
\* The closure's writes are committed if it returned Ok and the commit went
\* through, and rolled back otherwise.
TransactionEnd(committed, closure_ok, commit_ok, view) ==
    IF closure_ok /\ commit_ok THEN view ELSE committed

\* The result conn.transaction(..) returns.
TransactionResult(t, commit_ok) ==
    IF ~t.ok THEN ExtractErr(FromStorageError(t.err))
    ELSE IF ~commit_ok THEN ExtractErr(FromStorageError(Error("Unexpected", <<>>)))
    ELSE ExtractOk(t.value)

\* The transaction has ended and the gateway call has returned res to the
\* handler.
Ended(res) == [open |-> FALSE, view |-> EmptyStore, ok |-> res.ok,
               err |-> res.err, value |-> res.value]
\* The result the gateway call has returned to the handler.
GatewayResult == [ok |-> txn.ok, value |-> txn.value, err |-> txn.err]

\* The runner takes Some(Ok(New(data))) from the stream: the upstream
\* delivers the block after its head.
TakeNew ==
    /\ pc = "select"
    /\ handled < ExtMsgs
    /\ head < MaxBlock
    /\ \E p \in BlockContractChanges(head + 1)
                \cup {NoBlockPayload, MalformedPayload} :
          cur' = BlockScopedData(CursorOf(handled + 1), p)
    /\ head' = head + 1
    /\ handled' = handled + 1
    /\ pre' = Snapshot(store, cursor, Len(emitted), CursorOf(handled + 1),
                       "running")
    /\ calls' = <<>>
    /\ pc' = "handle"
    /\ UNCHANGED <<outcome, ctrlQ, subs, order, toRemove, result, chanVars,
                   emitted, registered, assigned, created, stopResults,
                   store, txn, cursor>>

\* The runner takes Some(Ok(Undo(undo_signal))) from the stream.
TakeUndo ==
    /\ pc = "select"
    /\ handled < ExtMsgs
    /\ \E ref \in UndoRefs(head) :
          /\ cur' = BlockUndoSignal(ref, CursorOf(handled + 1))
          /\ head' = IF ref # None /\ ref[1].id.digits # NotHex
                     THEN ref[1].number ELSE head
    /\ handled' = handled + 1
    /\ pre' = Snapshot(store, cursor, Len(emitted), CursorOf(handled + 1),
                       "running")
    /\ calls' = <<>>
    /\ pc' = "handle"
    /\ UNCHANGED <<outcome, ctrlQ, subs, order, toRemove, result, chanVars,
                   emitted, registered, assigned, created, stopResults,
                   store, txn, cursor>>

\* The handler returns o; st is "ok" or "err".
Return(o, st) ==
    /\ outcome' = o
    /\ pre' = [pre EXCEPT !.status = st]
    /\ pc' = "match"

extFrame == <<cur, ctrlQ, subs, order, toRemove, result, chanVars, histVars,
              created, stopResults, head>>

\* Mutant of TickEmpty: the match has no arm for Empty, which is returned
\* like every other error.
TickEmpty_reject ==
    /\ pc = "handle"
    /\ cur.type = "New"
    /\ \E r \in try_from_message(cur.payload) :
          /\ ~r.ok
          /\ r.err.kind = "Empty"
          /\ Return(Outcome("Err", r.err), "err")
    /\ UNCHANGED <<store, txn, cursor, calls>>
    /\ UNCHANGED extFrame

\* handle_tick_scoped_data, Err(ExtractionError::Empty): the payload has no
\* block; the cursor is updated and Ok(None) returned.
TickEmpty ==
    /\ pc = "handle"
    /\ cur.type = "New"
    /\ \E r \in try_from_message(cur.payload) :
          ~r.ok /\ r.err.kind = "Empty"
    /\ cursor' = update_cursor(cur.cursor)
    /\ Return(Outcome("None", NoResult), "ok")
    /\ UNCHANGED <<store, txn, calls>>
    /\ UNCHANGED extFrame

\* handle_tick_scoped_data, Err(e) => return Err(e)
TickReject ==
    /\ pc = "handle"
    /\ cur.type = "New"
    /\ \E r \in try_from_message(cur.payload) :
          /\ ~r.ok
          /\ r.err.kind # "Empty"
          /\ Return(Outcome("Err", r.err), "err")
    /\ UNCHANGED <<store, txn, cursor, calls>>
    /\ UNCHANGED extFrame

\* handle_tick_scoped_data calls gateway.upsert_contract(&msg, cursor):
\* forward runs in a transaction on a pooled connection.
TickUpsert ==
    /\ pc = "handle"
    /\ cur.type = "New"
    /\ \E r \in try_from_message(cur.payload), fault \in Faults :
          /\ r.ok
          /\ txn' = Txn(forward(store, r.value, cur.cursor, fault), r.value)
    /\ calls' = Append(calls, [op |-> "upsert_contract", to |-> <<>>,
                               cursor |-> cur.cursor])
    /\ pc' = "commit"
    /\ UNCHANGED <<store, cursor, outcome, pre>>
    /\ UNCHANGED extFrame

\* Mutant of CursorOnReturn: the cursor is updated before the result of the
\* gateway call is looked at.
CursorOnReturn_always(res, c) == update_cursor(c)

\* Inner.cursor when the gateway call has returned res for a message with
\* cursor c: `gateway.call(..).await?; self.update_cursor(c).await`.
CursorOnReturn(res, c) == IF res.ok THEN update_cursor(c) ELSE cursor

\* What handle_tick_scoped_data returns once upsert_contract returned res.
TickOutcome(res) ==
    IF ~res.ok THEN Outcome("Err", res.err)
    ELSE IF aggregate_updates(res.value).ok THEN Outcome("Some", NoResult)
    ELSE Outcome("Err", aggregate_updates(res.value).err)

\* upsert_contract, `conn.transaction(..).await?; Ok(())`: the transaction
\* ends, committed or rolled back, and the gateway call returns its result
\* to handle_tick_scoped_data, which has not yet looked at it: Inner.cursor
\* is still the cursor of the message before.
UpsertCommit ==
    /\ pc = "commit"
    /\ cur.type = "New"
    /\ \E commit_ok \in IF txn.ok THEN BOOLEAN ELSE {TRUE} :
          /\ store' = TransactionEnd(store, txn.ok, commit_ok, txn.view)
          /\ txn' = Ended(TransactionResult(txn, commit_ok))
    /\ pc' = "returned"
    /\ UNCHANGED <<cursor, outcome, pre, calls>>
    /\ UNCHANGED extFrame

\* handle_tick_scoped_data after upsert_contract has returned: `.await?`
\* returns its error; otherwise update_cursor locks Inner and sets the
\* cursor, and the aggregated updates are returned.
UpsertReturn ==
    /\ pc = "returned"
    /\ cur.type = "New"
    /\ cursor' = CursorOnReturn(GatewayResult, cur.cursor)
    /\ Return(TickOutcome(GatewayResult),
              IF TickOutcome(GatewayResult).kind = "Err" THEN "err" ELSE "ok")
    /\ txn' = NoTxn
    /\ UNCHANGED <<store, calls>>
    /\ UNCHANGED extFrame

\* Mutant of RevertTarget: the block is identified by the number of the
\* reference, not by its hash.
RevertTarget_byNumber(inp) ==
    IF inp.last_valid_block = None
    THEN ExtractErr(Error("DecodeError", <<"Revert without block ref">>))
    ELSE IF ~H256FromStr(inp.last_valid_block[1].id).ok
    THEN ExtractErr(Error("DecodeError", <<"Failed to parse as block hash">>))
    ELSE ExtractOk(BlockIdNumber(inp.last_valid_block[1].number))

\* Mutant of RevertTarget: a signal without block reference reverts to the
\* default (zero) hash.
RevertTarget_defaultRef(inp) ==
    IF inp.last_valid_block = None
    THEN ExtractOk(BlockIdHash(BlockHash(0)))
    ELSE IF ~H256FromStr(inp.last_valid_block[1].id).ok
    THEN ExtractErr(Error("DecodeError", <<"Failed to parse as block hash">>))
    ELSE ExtractOk(BlockIdHash(H256FromStr(inp.last_valid_block[1].id).value))

\* handle_revert: the block identifier it reverts to, or the DecodeError of
\* a signal without block reference or with one that is no hash.
RevertTarget(inp) ==
    IF inp.last_valid_block = None
    THEN ExtractErr(Error("DecodeError", <<"Revert without block ref">>))
    ELSE IF ~H256FromStr(inp.last_valid_block[1].id).ok
    THEN ExtractErr(Error("DecodeError", <<"Failed to parse as block hash">>))
    ELSE ExtractOk(BlockIdHash(H256FromStr(inp.last_valid_block[1].id).value))

\* handle_revert returns the DecodeError.
RevertReject ==
    /\ pc = "handle"
    /\ cur.type = "Undo"
    /\ ~RevertTarget(cur).ok
    /\ Return(Outcome("Err", RevertTarget(cur).err), "err")
    /\ UNCHANGED <<store, txn, cursor, calls>>
    /\ UNCHANGED extFrame

\* handle_revert calls gateway.revert(BlockIdentifier::Hash(..), cursor):
\* backward runs in a transaction on a pooled connection.
RevertBegin ==
    /\ pc = "handle"
    /\ cur.type = "Undo"
    /\ RevertTarget(cur).ok
    /\ \E fault \in Faults :
          LET b == backward(store, RevertTarget(cur).value, cur.cursor, fault)
          IN  txn' = Txn(b, b.value)
    /\ calls' = Append(calls, [op |-> "revert",
                               to |-> RevertTarget(cur).value,
                               cursor |-> cur.cursor])
    /\ pc' = "commit"
    /\ UNCHANGED <<store, cursor, outcome, pre>>
    /\ UNCHANGED extFrame

\* Mutant of RevertOutcome: the changes are returned whether or not they
\* hold an account update.
RevertOutcome_always(res) ==
    IF ~res.ok THEN Outcome("Err", res.err) ELSE Outcome("Some", NoResult)

\* What handle_revert returns once revert returned res:
\* Ok((!changes.account_updates.is_empty()).then_some(changes))
RevertOutcome(res) ==
    IF ~res.ok THEN Outcome("Err", res.err)
    ELSE IF res.value.account_updates # {} THEN Outcome("Some", NoResult)
    ELSE Outcome("None", NoResult)

\* revert, `conn.transaction(..).await?; Ok(res)`: the transaction ends,
\* committed or rolled back, and the gateway call returns its result to
\* handle_revert, which has not yet looked at it: Inner.cursor is still the
\* cursor of the message before.
RevertCommit ==
    /\ pc = "commit"
    /\ cur.type = "Undo"
    /\ \E commit_ok \in IF txn.ok THEN BOOLEAN ELSE {TRUE} :
          /\ store' = TransactionEnd(store, txn.ok, commit_ok, txn.view)
          /\ txn' = Ended(TransactionResult(txn, commit_ok))
    /\ pc' = "returned"
    /\ UNCHANGED <<cursor, outcome, pre, calls>>
    /\ UNCHANGED extFrame

\* handle_revert after revert has returned: `.await?` returns its error;
\* otherwise update_cursor locks Inner and sets the cursor, and the changes
\* are returned if they hold an account update.
RevertReturn ==
    /\ pc = "returned"
    /\ cur.type = "Undo"
    /\ cursor' = CursorOnReturn(GatewayResult, cur.cursor)
    /\ Return(RevertOutcome(GatewayResult),
              IF RevertOutcome(GatewayResult).kind = "Err" THEN "err" ELSE "ok")
    /\ txn' = NoTxn
    /\ UNCHANGED <<store, calls>>
    /\ UNCHANGED extFrame

\* The gateway call has committed and returned, and the handler has not
\* yet updated Inner.cursor: a reader of the store finds the cursor of the
\* message while Extractor::get_cursor still returns the one before.
CommittedAheadOfCursor ==
    /\ pc = "returned"
    /\ txn.ok
    /\ store.cursor = Some(AsBytes(cur.cursor))
    /\ get_cursor # cur.cursor

\* The extractor and its gateway under the runner: the runner takes the
\* upstream messages one at a time, the handler runs its transaction, and
\* the runner matches on what the handler returned.
ExtNext ==
    \/ TakeNew
    \/ TakeUndo
    \/ TickEmpty
    \/ TickReject
    \/ TickUpsert
    \/ UpsertCommit
    \/ UpsertReturn
    \/ RevertReject
    \/ RevertBegin
    \/ RevertCommit
    \/ RevertReturn
    \/ MatchSome
    \/ MatchNone
    \/ MatchErr
    \/ FanoutEnd

ExtSpec == Init /\ [][ExtNext]_vars

\* ------------------------------------------------------------ the store

\* The gateway's operations on the store.  The operations on blocks,
\* transactions and contracts run each in a transaction of its own: a
\* failed operation leaves the store as it was.  The operations on protocol
\* states and component balances run on the connection they are given and
\* open no transaction: what they wrote before an error stays.  Blocks are stored
\* in the order of their numbers and the transactions of a block in the
\* order of their indices; writes are stamped with a transaction of the
\* latest block.
storeFrame == <<runnerVars, ctrlQ, chanVars, histVars, created, stopResults,
                txn, cursor, head>>

\* The operation has returned r on a store that was s.
StoreReturn(r) ==
    /\ store' = IF r.ok THEN r.store ELSE store
    /\ calls' = <<>>
    /\ pre' = NoSnapshot
    /\ UNCHANGED storeFrame

\* An operation of the protocol gateway has returned r: the store is as
\* its statements have left it.
ConnReturn(r) ==
    /\ store' = r.store
    /\ calls' = <<>>
    /\ pre' = NoSnapshot
    /\ UNCHANGED storeFrame

\* The number of the latest stored block, 0 for a store without blocks.
LatestNumber(s) ==
    IF s.blocks = {} THEN 0
    ELSE CHOOSE n \in {b.number : b \in s.blocks} :
            \A b \in s.blocks : b.number <= n
\* The stored transactions of the latest block.
LatestTxs(s) ==
    {t \in s.txs : t.block_hash = BlockHash(LatestNumber(s))}
\* A further versioned write is applied to the store.
CanWrite(s) == Cardinality(s.rows) < MaxRows /\ LatestTxs(s) # {}

StoreUpsertBlock ==
    /\ LatestNumber(store) < MaxBlock
    /\ StoreReturn(upsert_block(store, Block(LatestNumber(store) + 1)))

StoreUpsertTx ==
    /\ store.blocks # {}
    /\ \E i \in TxIndices :
          /\ \A t \in LatestTxs(store) : t.index < i
          /\ \A j \in TxIndices : j < i =>
                \E t \in LatestTxs(store) : t.index = j
          /\ StoreReturn(upsert_tx(store,
                                   Transaction(LatestNumber(store), i)))

StoreInsertContract ==
    /\ CanWrite(store)
    /\ \E t \in LatestTxs(store) :
          \E u \in {x \in ContractChanges(t) : is_creation(x)} :
             StoreReturn(insert_contract(store, Account(u)))

StoreUpdateContracts ==
    /\ CanWrite(store)
    /\ \E t \in LatestTxs(store) :
          \E u \in {x \in ContractChanges(t) : is_update(x)} :
             StoreReturn(update_contracts(store, <<<<t.hash, u>>>>))

\* delete_contract is called for a stored account that is not deleted,
\* at a transaction of the latest block.
StoreDeleteContract ==
    /\ \E a \in store.accounts : a.deleted_ts = None
    /\ \E a \in {x \in store.accounts : x.deleted_ts = None},
          t \in LatestTxs(store) :
          StoreReturn(delete_contract(store, a.address, t.hash))

\* The deltas of a transaction: an attribute is set to the index of the
\* transaction, or is deleted.
DeltasOn(C, t) ==
    {ProtocolStateDelta(c, [a \in {x} |-> t.index], {}) :
        <<c, x>> \in C \X Attributes}
    \cup {ProtocolStateDelta(c, EmptyMap, {x}) :
            <<c, x>> \in C \X Attributes}
\* The store's operations are applied to one component.
StoreComponents == {"state1"}
DeltasOf(t) == DeltasOn(StoreComponents, t)

\* The batches update_protocol_states is called with: a delta of one
\* transaction, or deltas of two transactions in either order.
StateBatches(s) ==
    LET entries == UNION {{<<t.hash, d>> : d \in DeltasOf(t)} :
                            t \in LatestTxs(s)}
    IN  {b \in SeqsUpTo(entries, 2) :
            /\ b # <<>>
            /\ \A i, j \in 1..Len(b) : i # j => b[i][1] # b[j][1]}

StoreUpdateProtocolStates ==
    /\ CanWrite(store)
    /\ \E new \in StateBatches(store) :
          ConnReturn(update_protocol_states(store, new))

\* The balances add_component_balances is called with, each of the first
\* stored token: a balance of a stored component of ethereum, changed by a
\* transaction of the latest block, a zero balance of the stored component
\* of starknet, and balances whose transaction (one of the block after the
\* latest) or whose component is not stored.
BalanceMenu(s) ==
    {ComponentBalance(c, 1, t.index, t.hash) :
       t \in LatestTxs(s), c \in StoreComponents}
    \cup {ComponentBalance("state2", 1, 0, Transaction(LatestNumber(s), 1).hash)}
    \cup {ComponentBalance(c, 1, 1, Transaction(LatestNumber(s) + 1, 1).hash) :
            c \in StoreComponents}
    \cup {ComponentBalance("nope", 1, t.index, t.hash) : t \in LatestTxs(s)}

StoreAddComponentBalances ==
    /\ CanWrite(store)
    /\ \E b \in BalanceMenu(store) :
          ConnReturn(add_component_balances(store, <<b>>,
                                             BlockTs(LatestNumber(store))))

\* revert_state(to) for a stored block; the store before it is kept in pre
\* and the call in calls.
StoreRevert ==
    /\ \E b \in store.blocks :
          LET r == revert_state(store, BlockIdHash(b.hash))
          IN  /\ store' = IF r.ok THEN r.store ELSE store
              /\ calls' = <<[op |-> "revert_state",
                             to |-> BlockIdHash(b.hash), cursor |-> <<>>]>>
              /\ pre' = Snapshot(store, cursor, 0, <<>>,
                                 IF r.ok THEN "ok" ELSE "err")
    /\ UNCHANGED storeFrame

StoreNext ==
    \/ StoreUpsertBlock
    \/ StoreUpsertTx
    \/ StoreInsertContract
    \/ StoreUpdateContracts
    \/ StoreUpdateProtocolStates
    \/ StoreAddComponentBalances
    \/ StoreRevert

StoreSpec == Init /\ [][StoreNext]_vars

\* The operations on contracts, delete_contract among them, with reverts:
\* the stores the account deltas are taken on.
AccountsNext ==
    \/ StoreUpsertBlock
    \/ StoreUpsertTx
    \/ StoreInsertContract
    \/ StoreUpdateContracts
    \/ StoreDeleteContract
    \/ StoreRevert

AccountsSpec == Init /\ [][AccountsNext]_vars

\* ================================================================ claims

\* The runner is between two messages: no fan-out is under way.
OutsideFanout == pc \in {"select", "ctrl", "handle", "match"}

\* The messages emitted since channel c was registered.
EmittedSince(c) == SubSeq(emitted, registered[c] + 1, Len(emitted))

\* C1 (as stated): at every point in time the sequence of messages a
\* subscriber has received is a prefix of the sequence of messages the
\* extractor has emitted.
C1_ReceivedIsPrefixOfEmitted ==
    \A c \in Chans : IsPrefix(received[c], emitted)

\* C1 (amended): at every point in time the sequence of messages a
\* subscriber has received is a prefix of the sequence of messages the
\* extractor has emitted since that subscriber's Subscribe was processed,
\* in emit order: nothing is reordered, duplicated or skipped.
C1_ReceivedIsPrefixSinceSubscribe ==
    \A c \in Chans :
        IF registered[c] >= 0
        THEN IsPrefix(received[c], EmittedSince(c))
        ELSE received[c] = <<>>

\* A subscriber registered after the first emit has received a message.
C1_Witness ==
    \E c \in Chans :
        /\ registered[c] >= 1
        /\ received[c] # <<>>
        /\ \E d \in Chans : d # c /\ Len(received[d]) >= 2

\* C2: every message the runner emits is sent to every subscriber whose
\* Subscribe was processed before the emit and whose receiver has not been
\* dropped, as long as the runner has not terminated.
C2_EveryLiveSubscriberIsSentEveryMessage ==
    \A c \in Chans :
        (registered[c] >= 0 /\ rxAlive[c] /\ OutsideFanout)
            => sent[c] = EmittedSince(c)

\* C3: every processed Subscribe gets an id strictly greater than every id
\* assigned before on this extractor and adds exactly one entry to the
\* subscription table.
C3_SubscribeAddsEntryWithFreshId ==
    [][(pc = "ctrl" /\ cur.type = "Subscribe" /\ pc' = "select")
        => /\ Len(assigned') = Len(assigned) + 1
           /\ \A i \in 1..Len(assigned) : assigned[i] < Last(assigned')
           /\ Cardinality(DOMAIN subs') = Cardinality(DOMAIN subs) + 1]_vars

\* C4: when the runner processes a Stop it leaves its loop without handling
\* another upstream message, nothing is emitted or sent to a subscriber
\* from then on, and the task returns Ok.
C4_StopLeavesLoopWithOk ==
    [][/\ (pc = "ctrl" /\ cur.type = "Stop")
            => /\ pc' \in {"ctrl", "done"}
               /\ pc' = "done" => result' = OkResult
               /\ handled' = handled
               /\ emitted' = emitted
               /\ sent' = sent
       /\ (pc = "done")
            => /\ pc' = "done"
               /\ result' = result
               /\ handled' = handled
               /\ emitted' = emitted
               /\ sent' = sent]_vars

\* The runner has stopped on a Stop after handling upstream messages, with
\* a registered subscriber still holding its receiver.
C4_Witness ==
    /\ pc = "done"
    /\ result = OkResult
    /\ cur = Stop
    /\ handled >= 1
    /\ \E c \in Chans : registered[c] >= 0 /\ rxAlive[c]

\* C5: once one stop() call has returned Ok, every later stop() call on a
\* handle of the same extractor returns the closed-channel error.
C5_StopAtMostOnce ==
    \A i, j \in 1..Len(stopResults) :
        (i < j /\ stopResults[i] = OkResult) => stopResults[j] = ChannelClosed

\* The fan-out waits in send(): the subscriber it is at has a full channel
\* and still holds its receiver.
FanoutBlocked ==
    /\ pc = "fanout"
    /\ order # <<>>
    /\ rxAlive[TargetChan]
    /\ Len(buf[TargetChan]) >= SubCapacity

\* C7: while the subscriber the fan-out is at has a full channel and
\* neither receives nor drops, the runner sends the message to no other
\* subscriber and takes no upstream or control message; once that
\* subscriber has dropped its receiver the send fails, the fan-out goes on
\* with the remaining subscribers, and the subscriber is removed from the
\* table at the end of that fan-out.
C7_FullSubscriberBlocksFanout ==
    [][/\ (/\ FanoutBlocked
           /\ rxAlive'[TargetChan]
           /\ received'[TargetChan] = received[TargetChan])
            => /\ UNCHANGED <<pc, cur, outcome, subs, order, toRemove, result,
                              sent, emitted, handled>>
               /\ IsPrefix(ctrlQ, ctrlQ')
       /\ (pc = "fanout" /\ order # <<>> /\ ~rxAlive[TargetChan]
               /\ order' # order)
            => /\ pc' = "fanout"
               /\ order' = Tail(order)
               /\ toRemove' = toRemove \cup {Target}
               /\ sent' = sent
               /\ subs' = subs
       /\ (pc = "fanout" /\ pc' = "fanout") => toRemove \subseteq toRemove'
       /\ (pc = "fanout" /\ pc' = "select")
            => DOMAIN subs' = DOMAIN subs \ toRemove]_vars

\* The fan-out has passed a subscriber that dropped its receiver with a
\* message still unreceived, and now waits for a subscriber whose channel is
\* full while another subscriber and a control message are waiting.
C7_Witness ==
    /\ FanoutBlocked
    /\ Len(order) >= 2
    /\ ctrlQ # <<>>
    /\ \E id \in toRemove : Len(received[subs[id]]) < Len(sent[subs[id]])

\* The message of the fan-out under way was sent to channel c.
Delivered(c) == sent[c] # <<>> /\ Last(sent[c]) = Last(emitted)

\* C8: a failed send does not end the runner: when the fan-out of a message
\* ends the runner is back in its loop without a result, and the table
\* holds exactly the subscribers it held before whose send succeeded.
C8_FailedSendIsNotAnError ==
    [][(pc = "fanout" /\ pc' # "fanout")
        => /\ pc' = "select"
           /\ result' = NoResult
           /\ subs' = Restrict(subs, {id \in DOMAIN subs : Delivered(subs[id])})
      ]_vars

\* After a fan-out one subscriber is gone from the table because the send to
\* it failed, another one was sent the message and is still in the table,
\* and the runner goes on.
C8_Witness ==
    /\ pc = "select"
    /\ result = NoResult
    /\ emitted # <<>>
    /\ \E c, d \in Chans :
          /\ registered[c] >= 0
          /\ registered[c] < Len(emitted)
          /\ ~rxAlive[c]
          /\ c \notin Range(subs)
          /\ ~Delivered(c)
          /\ d \in Range(subs)
          /\ Delivered(d)

\* What the runner leaves untouched once it has returned.
StaysTerminated ==
    pc = "done"
        => /\ pc' = "done"
           /\ result' = result
           /\ handled' = handled
           /\ emitted' = emitted
           /\ sent' = sent

\* C9 (as stated): when the stream ends or yields an error the runner
\* terminates with SubstreamsError("stream ended"), or
\* SubstreamsError(<the upstream error's message>), never with success, and
\* handles no further message.
C9_StreamEndMessageIsStreamEnded ==
    [][/\ (pc = "select" /\ pc' = "done")
            => /\ cur'.type \in {"End", "Err"}
               /\ result' = Error("SubstreamsError",
                                  IF cur'.type = "End"
                                  THEN <<"stream ended">>
                                  ELSE cur'.err)
               /\ handled' = handled
               /\ emitted' = emitted
       /\ StaysTerminated]_vars

\* C9 (amended): when the stream ends or yields an error the runner
\* terminates with a SubstreamsError whose message is
\* "<extractor id>: stream ended", the id displayed as "<chain>:<name>", on
\* stream end and the upstream error's message otherwise, never with
\* success, and handles no further message.
C9_StreamEndOrErrorTerminates ==
    [][/\ (pc = "select" /\ pc' = "done")
            => /\ cur'.type \in {"End", "Err"}
               /\ result' = Error("SubstreamsError",
                                  IF cur'.type = "End"
                                  THEN <<ExtractorId.chain, ":",
                                         ExtractorId.name, ": stream ended">>
                                  ELSE cur'.err)
               /\ handled' = handled
               /\ emitted' = emitted
       /\ StaysTerminated]_vars

\* The stream ended after the runner had handled upstream messages.
C9_Witness ==
    /\ pc = "done"
    /\ cur.type = "End"
    /\ result.kind = "SubstreamsError"
    /\ handled >= 1

\* C10: when the extractor's handler of a New or Undo message returns an
\* error the runner terminates with exactly that error, nothing is emitted
\* for that upstream message, and no later upstream message is handled.
C10_HandlerErrorTerminates ==
    [][/\ (pc = "handle") => (pc' \in {"handle", "match"} /\ emitted' = emitted)
       /\ (pc = "match" /\ outcome.kind = "Err")
            => /\ pc' \in {"match", "done"}
               /\ pc' = "done" => result' = outcome.err
               /\ handled' = handled
               /\ emitted' = emitted
               /\ sent' = sent
       /\ StaysTerminated]_vars

\* The handler of an Undo failed after an earlier message had been emitted.
C10_Witness ==
    /\ pc = "done"
    /\ cur.type = "Undo"
    /\ outcome.kind = "Err"
    /\ result = outcome.err
    /\ result \in HandlerErrors
    /\ emitted # <<>>
    /\ Last(emitted) < handled

\* A Stop sent by stop() is waiting in the control channel.
StopQueued == \E i \in 1..Len(ctrlQ) : ctrlQ[i] = Stop

\* C6 (as stated): after a Stop has been sent the runner eventually
\* terminates, whatever the state of the subscribers' channels, and until
\* then it takes no further upstream message from the stream.
C6_StopAlwaysTerminatesRunner ==
    /\ StopQueued ~> (pc = "done")
    /\ [][(StopQueued /\ pc = "select") => handled' = handled]_vars

\* C6 (amended): after a Stop has been sent the runner eventually
\* terminates, unless its fan-out stays blocked for ever on a subscriber
\* whose channel is full and who neither receives nor drops.
C6_StopTerminatesRunnerUnlessBlocked ==
    (<>[]FanoutBlocked) \/ (StopQueued ~> (pc = "done"))

\* A Stop is waiting while the runner is at work on an upstream message
\* with a registered subscriber.
C6_Witness ==
    /\ StopQueued
    /\ pc \in {"handle", "match", "fanout"}
    /\ subs # EmptyMap

\* ------------------------------------------------- extractor and gateway

\* C11: once the extractor has successfully processed an upstream message
\* (its handler returned Ok), get_cursor returns the cursor that message
\* carried, and goes on doing so until the runner takes the next message
\* from the stream.
C11_CursorIsCursorOfProcessedMessage ==
    pre.status = "ok" => get_cursor = pre.msg_cursor

\* A block was written and the runner is back at its select.
C11_Witness ==
    /\ pc = "select"
    /\ pre.status = "ok"
    /\ store.rows # {}
    /\ get_cursor = CursorOf(handled)
    /\ cursor # pre.cursor

\* The message being handled is a New whose payload has no block.
EmptyNew == cur.type = "New" /\ cur.payload.block = None

\* C12: handling a New message whose payload has no block makes no store
\* call and changes nothing in the store, returns Ok(None), sets the
\* cursor to the cursor of the message, and the runner's match on the
\* result emits no message.
C12_EmptyPayloadOnlyAdvancesCursor ==
    [][(EmptyNew /\ pc \in {"handle", "match"}) =>
          /\ store' = store
          /\ txn' = txn
          /\ calls' = <<>>
          /\ emitted' = emitted
          /\ pc = "handle" =>
                /\ outcome' = Outcome("None", NoResult)
                /\ FromUtf8(cursor'.cursor) = cur.cursor
          /\ pc = "match" => pc' = "select" /\ cursor' = cursor]_vars

\* An empty payload was handled after a block had been written.
C12_Witness ==
    /\ EmptyNew
    /\ pc = "match"
    /\ outcome.kind = "None"
    /\ store.rows # {}
    /\ cursor # pre.cursor
    /\ store.cursor # Some(cursor.cursor)

\* The step ends a store transaction that does not commit: its closure
\* failed, or the committed state after it is not the closure's view.
CommitFails == pc = "commit" /\ (~txn.ok \/ store' # txn.view)

\* The gateway call has returned an error to the handler.
GatewayFailed == pc = "returned" /\ ~txn.ok

\* C13: when the store transaction of a block write or of a revert does not
\* commit, the committed store and the in-memory cursor stay as they were
\* and the gateway call returns a storage error; the handler then returns
\* that error with both still as they were, and the runner's match on it
\* emits nothing and terminates the runner with that error.
C13_FailedCommitKeepsCursor ==
    [][/\ CommitFails =>
             /\ cursor' = cursor
             /\ store' = store
             /\ emitted' = emitted
             /\ ~txn'.ok
             /\ txn'.err.kind = "Storage"
             /\ pc' = "returned"
       /\ GatewayFailed =>
             /\ cursor' = cursor
             /\ store' = store
             /\ emitted' = emitted
             /\ outcome' = Outcome("Err", txn.err)
             /\ outcome'.err.kind = "Storage"
             /\ pc' = "match"
       /\ (pc = "match" /\ outcome.kind = "Err") =>
             /\ emitted' = emitted
             /\ cursor' = cursor
             /\ result' = outcome.err
             /\ pc' = "done"]_vars

\* The runner ended with the storage error of a block write that came after
\* an earlier committed block.
C13_Witness ==
    /\ pc = "done"
    /\ result.kind = "Storage"
    /\ calls # <<>>
    /\ calls[1].op = "upsert_contract"
    /\ pre.store.rows # {}
    /\ cursor = pre.cursor
    /\ Len(emitted) = pre.emitted

\* Every write of the block of changes is in s: the block, and for each
\* update its transaction, the account it creates and a row stamped with
\* its transaction for every slot, balance and code it sets.
BlockWritesPresent(s, changes) ==
    /\ changes.block \in s.blocks
    /\ \A i \in 1..Len(changes.tx_updates) :
          LET u == changes.tx_updates[i]
              stamped(fam, key, val) ==
                  \E r \in s.rows : /\ r.fam = fam /\ r.key = key
                                    /\ r.val = val /\ r.modify_tx = u.tx.hash
          IN  /\ u.tx \in s.txs
              /\ is_creation(u) =>
                    \E a \in s.accounts : a.address = u.address
              /\ \A k \in DOMAIN u.slots :
                    stamped("contract_storage", <<u.address, k>>, u.slots[k])
              /\ (is_update(u) /\ IsSome(u.balance)) =>
                    stamped("account_balance", <<u.address, 0>>, u.balance[1])

\* The committed states a reader may see while cur is handled: the state
\* before, and the state with everything its transaction does.
AllOrNothingStates ==
    {pre.store}
    \cup (IF cur.type = "New"
          THEN {forward(pre.store, r.value, cur.cursor, "none").store :
                  r \in {x \in try_from_message(cur.payload) : x.ok}}
          ELSE IF cur.type = "Undo" /\ RevertTarget(cur).ok
          THEN {backward(pre.store, RevertTarget(cur).value, cur.cursor,
                         "none").store}
          ELSE {})

\* C14: from the moment a message is taken until the handler has returned,
\* the committed store is either the store as it was before the message or
\* the store with all writes of the message's transaction and its cursor;
\* and the committed store holds the cursor of a block's message only if
\* it holds all of that block's writes.
C14_BlockAndCursorCommitTogether ==
    pc \in {"handle", "commit", "returned", "match"} =>
       /\ store \in AllOrNothingStates
       /\ (cur.type = "New" /\ store.cursor = Some(AsBytes(cur.cursor))) =>
             \A r \in try_from_message(cur.payload) :
                r.ok => BlockWritesPresent(store, r.value)

\* A block with a contract update was committed along with its cursor.
C14_Witness ==
    /\ pc = "match"
    /\ cur.type = "New"
    /\ store.cursor = Some(AsBytes(cur.cursor))
    /\ store.rows # pre.store.rows
    /\ pre.store.rows # {}
    /\ \E r \in store.rows : r.valid_to # None

\* The hash an Undo signal's block reference spells, with or without 0x.
RefHash(inp) == inp.last_valid_block[1].id.digits
\* The signal being handled is an Undo whose reference spells a hash.
UndoWithHash ==
    /\ cur.type = "Undo"
    /\ cur.last_valid_block # None
    /\ RefHash(cur) # NotHex

\* C15: when the handler of an Undo has returned Ok, the gateway's revert
\* was called exactly once, with the hash of last_valid_block as the block
\* identifier and with last_valid_cursor; the committed store is the store
\* before, reverted to that block, with last_valid_cursor as its cursor;
\* and the extractor's cursor is last_valid_cursor.
C15_UndoRevertsOnceToHash ==
    (pc = "match" /\ cur.type = "Undo" /\ pre.status = "ok") =>
       /\ UndoWithHash
       /\ calls = <<[op |-> "revert", to |-> BlockIdHash(RefHash(cur)),
                     cursor |-> cur.cursor]>>
       /\ revert_state(pre.store, BlockIdHash(RefHash(cur))).ok
       /\ store = [revert_state(pre.store, BlockIdHash(RefHash(cur))).store
                      EXCEPT !.cursor = Some(AsBytes(cur.cursor))]
       /\ get_cursor = cur.cursor

\* An Undo that deleted a block and reopened a row has been handled.
C15_Witness ==
    /\ pc = "match"
    /\ cur.type = "Undo"
    /\ pre.status = "ok"
    /\ store.blocks # pre.store.blocks
    /\ store.blocks # {}
    /\ \E r \in pre.store.rows : r.valid_to # None
    /\ get_cursor = cur.cursor

\* The Undo being handled names no stored block: it has no block reference,
\* or no block with the hash of its reference was stored before it.
UndoWithoutRecord ==
    /\ cur.type = "Undo"
    /\ \/ cur.last_valid_block = None
       \/ \A b \in pre.store.blocks : b.hash # RefHash(cur)

\* C16 as stated: an Undo whose last_valid_block has no record (no block
\* reference, or no stored block with that hash) is rejected with a
\* DecodeError, and neither the store nor the cursor changes.
C16_UndoWithoutRecordIsDecodeError ==
    (pc = "match" /\ UndoWithoutRecord) =>
       /\ outcome.kind = "Err"
       /\ outcome.err.kind = "DecodeError"
       /\ store = pre.store
       /\ cursor = pre.cursor

\* C16, amended: an Undo without block reference, or whose reference is no
\* hash, is rejected with a DecodeError before any store call; an Undo
\* whose hash matches no stored block fails with the storage error of the
\* block lookup; in each case neither the store nor the cursor changes.
C16_UndoWithoutRecordIsRejected ==
    (pc = "match" /\ UndoWithoutRecord) =>
       /\ outcome.kind = "Err"
       /\ store = pre.store
       /\ cursor = pre.cursor
       /\ IF UndoWithHash
          THEN /\ outcome.err.kind = "Storage"
               /\ Len(calls) = 1
          ELSE /\ outcome.err.kind = "DecodeError"
               /\ calls = <<>>

\* After a block was written, an Undo to a hash that is not stored has
\* failed in the block lookup.
C16_Witness ==
    /\ pc = "match"
    /\ UndoWithoutRecord
    /\ UndoWithHash
    /\ pre.store.blocks # {}
    /\ outcome.err = Error("Storage", <<"NotFound">>)
    /\ store = pre.store

\* The contract state of a store: its accounts and its versioned rows.
ContractState(s) == [accounts |-> s.accounts, rows |-> s.rows]

\* The stored block with the highest number (the store has one).
LatestBlock(s) ==
    CHOOSE b \in s.blocks : \A x \in s.blocks : x.number <= b.number

\* The store after the forward write of changes on s and the revert to the
\* block that was the latest of s.
ForwardThenRevert(s, changes) ==
    backward(forward(s, changes, CursorOf(0), "none").store,
             BlockIdHash(LatestBlock(s).hash), CursorOf(0), "none")

\* C17: from every store the extractor can have committed, the forward
\* write of any next block followed by the revert to the block that was
\* the latest before gives back the contract state there was before the
\* write: the same accounts and the same rows, and so every row that was
\* open before, and that the block had closed, is open again.
C17_RevertUndoesForward ==
    (pc = "select" /\ store.blocks # {}) =>
       \A n \in BlockNumbers :
          \A r \in UNION {try_from_message(p) :
                            p \in BlockContractChanges(n)} :
             (/\ n > LatestBlock(store).number
              /\ r.ok
              /\ forward(store, r.value, CursorOf(0), "none").ok) =>
                /\ ForwardThenRevert(store, r.value).ok
                /\ ContractState(ForwardThenRevert(store, r.value).store)
                      = ContractState(store)
                /\ \A row \in store.rows :
                      row \in ForwardThenRevert(store, r.value).store.rows

\* The extractor has written a block that closed a row of the block
\* before, and has then reverted to the block before: the row is open
\* again and no row of the reverted block is left.
C17_Witness ==
    /\ pc = "match"
    /\ cur.type = "Undo"
    /\ pre.status = "ok"
    /\ store.blocks # {}
    /\ \E row \in pre.store.rows :
          /\ row.valid_to = Some(BlockTs(LatestBlock(pre.store).number))
          /\ row.valid_from < BlockTs(LatestBlock(pre.store).number)
          /\ [row EXCEPT !.valid_to = None] \in store.rows
    /\ \A row \in store.rows :
          \E t \in store.txs : t.hash = row.modify_tx

\* ------------------------------------------------------------- the store

\* The last operation on the store was a revert_state that returned Ok.
Reverted ==
    /\ calls # <<>>
    /\ calls[1].op = "revert_state"
    /\ pre.status = "ok"
\* The block it reverted to and the blocks it deleted.
RevertedTo == CHOOSE b \in pre.store.blocks : b.hash = calls[1].to.hash
DeletedBlocks == {b \in pre.store.blocks : b.number > RevertedTo.number}
\* The transaction of row r was in a deleted block.
InDeletedBlock(r) ==
    \E t \in pre.store.txs, b \in DeletedBlocks :
       t.hash = r.modify_tx /\ b.hash = t.block_hash
\* Row r was closed at the timestamp of a deleted block.
ClosedByDeleted(r) ==
    r.valid_to # None /\ \E b \in DeletedBlocks : b.ts = r.valid_to[1]

\* C18: after revert_state(to = B) returned Ok, the store has no block with
\* a number above B's and no row whose modify_tx was in such a block, and
\* every remaining row that was closed at the timestamp of a deleted block
\* is there with valid_to = NULL and nothing else changed.
C18_RevertDeletesAndReopens ==
    Reverted =>
       /\ \A b \in store.blocks : b.number <= RevertedTo.number
       /\ \A r \in store.rows :
             \E t \in store.txs, b \in store.blocks :
                t.hash = r.modify_tx /\ b.hash = t.block_hash
       /\ store.rows =
             {IF ClosedByDeleted(r) THEN [r EXCEPT !.valid_to = None] ELSE r :
                r \in {x \in pre.store.rows : ~InDeletedBlock(x)}}
       /\ \A r \in store.rows : ~ClosedByDeleted(r)

\* A revert has deleted a row of a deleted block and has reopened a row
\* that the deleted block had closed.
C18_Witness ==
    /\ Reverted
    /\ \E r \in pre.store.rows : InDeletedBlock(r)
    /\ \E r \in pre.store.rows :
          /\ ClosedByDeleted(r)
          /\ ~InDeletedBlock(r)
          /\ r \notin store.rows
          /\ [r EXCEPT !.valid_to = None] \in store.rows

\* C19: a second revert_state(to = B) right after the first returns Ok and
\* leaves the store as the first left it, and revert_state to the latest
\* stored block leaves the store as it is.
C19_RevertIsIdempotent ==
    /\ Reverted => revert_state(store, calls[1].to) = StorageOk(store)
    /\ store.blocks # {} =>
          revert_state(store, BlockIdHash(BlockHash(LatestNumber(store))))
             = StorageOk(store)

\* A revert that changed the store has been applied, and the store still
\* holds rows.
C19_Witness ==
    /\ Reverted
    /\ store # pre.store
    /\ store.rows # {}
    /\ LatestNumber(store) < LatestNumber(pre.store)

\* C20 as stated: after any sequence of versioned writes and reverts, at
\* most one row of a family and identity key has valid_to = NULL.
C20_AtMostOneOpenRow ==
    \A r1, r2 \in store.rows :
       (/\ r1.fam = r2.fam /\ r1.key = r2.key
        /\ r1.valid_to = None /\ r2.valid_to = None) => r1 = r2

\* ------------------------------------------------------------ intervals

\* The rows of the store that share family and identity key with r.
RowsOfKey(s, r) == {x \in s.rows : x.fam = r.fam /\ x.key = r.key}
\* The intervals [valid_from, valid_to) of two rows do not overlap.
Disjoint(a, b) ==
    \/ a.valid_to # None /\ a.valid_to[1] <= b.valid_from
    \/ b.valid_to # None /\ b.valid_to[1] <= a.valid_from
\* The closed row r is continued: a further row of its key starts where r
\* ends.
Continued(s, r) ==
    \E n \in RowsOfKey(s, r) \ {r} :
       n.valid_from = r.valid_to[1] /\ r.valid_from <= n.valid_from

\* C21 as stated: for every identity key of a versioned row family the
\* intervals [valid_from, valid_to) of its rows do not overlap, and they
\* leave no gap: each closed row that has a next row of its key ends where
\* that row starts.
C21_IntervalsPartition ==
    \A r \in store.rows :
       /\ \A x \in RowsOfKey(store, r) \ {r} : Disjoint(r, x)
       /\ (/\ r.valid_to # None
           /\ \E x \in RowsOfKey(store, r) \ {r} :
                 r.valid_from <= x.valid_from)
          => Continued(store, r)

\* --------------------------------------------------------- valid_from

\* The rows written by update_protocol_states and add_component_balances.
StateAndBalanceRows(s) ==
    {r \in s.rows : r.fam \in {"protocol_state", "component_balance"}}
\* add_component_balances has just returned Ok.
BalancesAdded ==
    calls # <<>> /\ calls[1].op = "add_component_balances" /\ calls[1].ok
\* add_component_balances has just panicked.
BalancesPanicked ==
    calls # <<>> /\ calls[1].op = "add_component_balances" /\ ~calls[1].ok

\* C22 as stated: every protocol state row and every component balance row
\* has valid_from equal to the timestamp of the block that contains its
\* modify_tx.
C22_ValidFromIsBlockTsOfTx ==
    \A r \in StateAndBalanceRows(store) :
       r.valid_from = TxTs(store, r.modify_tx)

\* C22, amended: every protocol state row has valid_from equal to the
\* timestamp of the block of its modify_tx; the component balance rows
\* written by a call of add_component_balances have valid_from equal to
\* the block_ts argument of that call.
C22_ValidFromIsTsOfWrite ==
    /\ \A r \in store.rows :
          r.fam = "protocol_state" => r.valid_from = TxTs(store, r.modify_tx)
    /\ BalancesAdded =>
          \A i \in 1..Len(calls[1].component_balances) :
             LET b == calls[1].component_balances[i]
             IN  Row("component_balance", <<b.component_id, b.token>>,
                     b.new_balance, calls[1].block_ts, None, b.modify_tx)
                   \in store.rows

\* A balance was added with a block_ts that is not the timestamp of the
\* block of its transaction.
C22_Witness ==
    /\ BalancesAdded
    /\ \E i \in 1..Len(calls[1].component_balances) :
          TxTs(store, calls[1].component_balances[i].modify_tx)
             # calls[1].block_ts
    /\ \E r \in store.rows :
          r.fam = "component_balance" /\ r.valid_from = calls[1].block_ts

\* ================================================================ queries

\* Utc::now(): a time after the timestamp of every block.
Now == BlockTs(MaxBlock + 1) + 1
\* The timestamp of a version: BlockOrTimestamp::to_ts of
\* Block(Number(n)) for a stored block, the current time without one.
VersionTs(s, version) ==
    IF version = None THEN Now
    ELSE (CHOOSE b \in s.blocks : b.number = version[1]).ts
\* The versions a query is called with on store s.
Versions(s) == {None} \cup {Some(b.number) : b \in s.blocks}

\* The index of the transaction that wrote row r.
TxIndex(s, r) == TxByHash(s, r.modify_tx).index

\* orm::ProtocolState::by_chain and by_id: the protocol state rows of the
\* components of the chain that are valid at version_ts (of the components
\* in ids, if given), each with the id of its component and the hash of
\* its transaction.
ValidStateRows(s, chain, ids, version_ts) ==
    {r \in s.rows :
        /\ r.fam = "protocol_state"
        /\ r.key[1] \in ComponentsOf(chain)
        /\ ids # None => r.key[1] \in ids[1]
        /\ r.valid_from <= version_ts
        /\ r.valid_to = None \/ r.valid_to[1] > version_ts}
\* The order of the rows of the query: component, block of the
\* transaction, index of the transaction.
StateRowLeq(s, a, b) ==
    LET ca == ComponentDbId(a.key[1])
        cb == ComponentDbId(b.key[1])
    IN  IF ca # cb THEN ca < cb
        ELSE IF a.valid_from # b.valid_from THEN a.valid_from < b.valid_from
        ELSE TxIndex(s, a) <= TxIndex(s, b)
RECURSIVE OrderStateRows(_, _)
OrderStateRows(s, R) ==
    IF R = {} THEN <<>>
    ELSE LET m == CHOOSE x \in R : \A y \in R : StateRowLeq(s, x, y)
         IN  <<[state |-> m, component_id |-> m.key[1],
                tx_hash |-> m.modify_tx]>>
             \o OrderStateRows(s, R \ {m})

\* ProtocolState
ProtocolState(component_id, attributes, modify_tx) ==
    [component_id |-> component_id, attributes |-> attributes,
     modify_tx |-> modify_tx]
\* ProtocolState::from_storage: the attributes of the rows are collected
\* into a map, a later row of an attribute replacing an earlier one.
from_storage(states, component_id, tx_hash) ==
    ProtocolState(
        component_id,
        [a \in {states[i].key[2] : i \in 1..Len(states)} |->
            LET last == CHOOSE i \in 1..Len(states) :
                           /\ states[i].key[2] = a
                           /\ \A j \in 1..Len(states) :
                                 states[j].key[2] = a => j <= i
            IN  states[last].val],
        tx_hash)

\* _decode_protocol_states, the inner `while`: the index after the rows
\* that follow data_vec[1] with its component id.
ComponentEnd(data_vec) ==
    CHOOSE index \in 2..(Len(data_vec) + 1) :
       /\ \A k \in 1..(index - 1) :
             data_vec[k].component_id = data_vec[1].component_id
       /\ \/ index = Len(data_vec) + 1
          \/ data_vec[index].component_id # data_vec[1].component_id

\* _decode_protocol_states that makes a state of every row.
RECURSIVE decode_protocol_states_perRow(_)
decode_protocol_states_perRow(data_vec) ==
    IF data_vec = <<>> THEN <<>>
    ELSE <<from_storage(<<data_vec[1].state>>, data_vec[1].component_id,
                        data_vec[1].tx_hash)>>
         \o decode_protocol_states_perRow(Tail(data_vec))

\* _decode_protocol_states: the rows of one component, which follow each
\* other, become one ProtocolState with the hash of the last row.
RECURSIVE decode_protocol_states(_)
decode_protocol_states(data_vec) ==
    IF data_vec = <<>> THEN <<>>
    ELSE LET index == ComponentEnd(data_vec)
             states_slice == SubSeq(data_vec, 1, index - 1)
         IN  <<from_storage(
                 [i \in 1..Len(states_slice) |-> states_slice[i].state],
                 data_vec[1].component_id,
                 states_slice[Len(states_slice)].tx_hash)>>
             \o decode_protocol_states(
                  SubSeq(data_vec, index, Len(data_vec)))

\* The rows of the query for chain_db_id and version_ts: without a
\* version, the rows that are currently valid.
StateRowsAt(s, chain, ids, version_ts) ==
    IF version_ts = None
    THEN {r \in s.rows : /\ r.fam = "protocol_state"
                         /\ r.key[1] \in ComponentsOf(chain)
                         /\ ids # None => r.key[1] \in ids[1]
                         /\ r.valid_to = None}
    ELSE ValidStateRows(s, chain, ids, version_ts[1])

\* get_protocol_states(chain, at, system = None, ids): the chain filter
\* is always applied, with the component ids if they are given.
get_protocol_states(s, chain, at, ids) ==
    LET version_ts == IF at = None THEN None ELSE Some(VersionTs(s, at))
    IN  decode_protocol_states(
            OrderStateRows(s, StateRowsAt(s, chain, ids, version_ts)))

\* The component balance rows of the store, and the first row of each
\* identity key among rows R in the order Before (DISTINCT ON after ORDER
\* BY), in the order of component and token.
BalanceRows(s) == {r \in s.rows : r.fam = "component_balance"}
\* component_balance joined with protocol_component and chain, filtered
\* by chain::id.eq(chain_id).
BalanceRowsOf(s, chain) ==
    {r \in BalanceRows(s) : r.key[1] \in ComponentsOf(chain)}
BalanceKeyLeq(a, b) ==
    IF ComponentDbId(a[1]) # ComponentDbId(b[1])
    THEN ComponentDbId(a[1]) < ComponentDbId(b[1])
    ELSE a[2] <= b[2]
RECURSIVE OrderKeys(_)
OrderKeys(K) ==
    IF K = {} THEN <<>>
    ELSE LET m == CHOOSE x \in K : \A y \in K : BalanceKeyLeq(x, y)
         IN  <<m>> \o OrderKeys(K \ {m})
\* valid_from.desc(), transaction::index.desc()
LatestFirst(s, a, b) ==
    IF a.valid_from # b.valid_from THEN a.valid_from > b.valid_from
    ELSE TxIndex(s, a) >= TxIndex(s, b)
\* valid_from.asc(), transaction::index.asc()
EarliestFirst(s, a, b) ==
    IF a.valid_from # b.valid_from THEN a.valid_from < b.valid_from
    ELSE TxIndex(s, a) <= TxIndex(s, b)
\* The ComponentBalance of a row.
BalanceOfRow(r) == ComponentBalance(r.key[1], r.key[2], r.val, r.modify_tx)

\* get_balance_deltas, going forward, with a window that holds start_ts.
balance_deltas_forward_fromStart(s, chain, start_ts, target_ts) ==
    LET R == {r \in BalanceRowsOf(s, chain) :
                /\ r.valid_from >= start_ts
                /\ r.valid_from <= target_ts
                /\ r.valid_to = None \/ r.valid_to[1] > target_ts}
        keys == OrderKeys({r.key : r \in R})
    IN  [i \in 1..Len(keys) |->
           BalanceOfRow(CHOOSE x \in R :
                           /\ x.key = keys[i]
                           /\ \A y \in R : y.key = keys[i] =>
                                 LatestFirst(s, x, y))]

\* get_balance_deltas, going forward: the filters of the statement are
\* joined by AND; of the rows they leave, the latest of each component
\* and token is returned.
balance_deltas_forward(s, chain, start_ts, target_ts) ==
    LET R == {r \in BalanceRowsOf(s, chain) :
                /\ r.valid_from > start_ts
                /\ r.valid_from <= target_ts
                /\ r.valid_from <= target_ts
                /\ r.valid_to = None \/ r.valid_to[1] > target_ts}
        keys == OrderKeys({r.key : r \in R})
    IN  [i \in 1..Len(keys) |->
           BalanceOfRow(CHOOSE x \in R :
                           /\ x.key = keys[i]
                           /\ \A y \in R : y.key = keys[i] =>
                                 LatestFirst(s, x, y))]

\* get_balance_deltas, going backwards: the filters of the statement are
\* joined by AND; of the rows they leave, the earliest of each component
\* and token is returned.
balance_deltas_backward(s, chain, start_ts, target_ts) ==
    LET R == {r \in BalanceRowsOf(s, chain) :
                /\ r.valid_from >= target_ts
                /\ r.valid_from < start_ts
                /\ r.valid_from <= target_ts
                /\ r.valid_to = None \/ r.valid_to[1] > target_ts}
        keys == OrderKeys({r.key : r \in R})
    IN  [i \in 1..Len(keys) |->
           BalanceOfRow(CHOOSE x \in R :
                           /\ x.key = keys[i]
                           /\ \A y \in R : y.key = keys[i] =>
                                 EarliestFirst(s, x, y))]

\* get_balance_deltas(chain, start_version, target_version)
get_balance_deltas(s, chain, start_version, target_version) ==
    LET start_ts == VersionTs(s, start_version)
        target_ts == VersionTs(s, target_version)
    IN  IF start_ts <= target_ts
        THEN balance_deltas_forward(s, chain, start_ts, target_ts)
        ELSE balance_deltas_backward(s, chain, start_ts, target_ts)

\* The protocol state rows of the store and their identity keys.
StateRows(s) == {r \in s.rows : r.fam = "protocol_state"}
\* The protocol state rows of the components of a chain.
StateRowsOf(s, chain) ==
    {r \in StateRows(s) : r.key[1] \in ComponentsOf(chain)}
\* The latest of the rows of key k that are valid at ts, None without one.
StateAsOf(s, k, ts) ==
    LET R == {r \in ValidStateRows(s, ComponentChain(k[1]), None, ts) :
                 r.key = k}
    IN  IF R = {} THEN None
        ELSE Some(CHOOSE x \in R : \A y \in R : LatestFirst(s, x, y))

\* orm::ProtocolState::forward_deltas_by_chain: for each component and
\* attribute with a row that became valid after start_ts and not after
\* end_ts, the row valid at end_ts, with the id of its component; in the
\* order of component and transaction.
forward_deltas_by_chain(s, chain, start_ts, end_ts) ==
    LET changed == {r.key : r \in {x \in StateRowsOf(s, chain) :
                                      /\ x.valid_from > start_ts
                                      /\ x.valid_from <= end_ts}}
        R == {StateAsOf(s, k, end_ts)[1] :
                 k \in {x \in changed : StateAsOf(s, x, end_ts) # None}}
        ordered == OrderStateRows(s, R)
    IN  [i \in 1..Len(ordered) |-> <<ordered[i].state,
                                     ordered[i].component_id>>]

\* orm::ProtocolState::deleted_attributes_by_chain: the component and
\* name of each attribute with a row closed after start_ts and not after
\* end_ts and without a row valid at end_ts; in the order of component
\* and attribute.
deleted_attributes_by_chain(s, chain, start_ts, end_ts) ==
    OrderKeys({r.key : r \in {x \in StateRowsOf(s, chain) :
                                 /\ x.valid_to # None
                                 /\ x.valid_to[1] > start_ts
                                 /\ x.valid_to[1] <= end_ts
                                 /\ StateAsOf(s, x.key, end_ts) = None}})

\* orm::ProtocolState::reverse_delta_by_chain: for each component and
\* attribute with a row that became valid or was closed after end_ts and
\* not after start_ts, the value valid at end_ts, None without one; in
\* the order of component and attribute.
reverse_delta_by_chain(s, chain, start_ts, end_ts) ==
    LET changed == {r.key : r \in {x \in StateRowsOf(s, chain) :
                       \/ /\ x.valid_from > end_ts
                          /\ x.valid_from <= start_ts
                       \/ /\ x.valid_to # None
                          /\ x.valid_to[1] > end_ts
                          /\ x.valid_to[1] <= start_ts}}
        keys == OrderKeys(changed)
    IN  [i \in 1..Len(keys) |->
           <<keys[i][1], keys[i][2],
             IF StateAsOf(s, keys[i], end_ts) = None THEN None
             ELSE Some(StateAsOf(s, keys[i], end_ts)[1].val)>>]

\* ProtocolStateDelta::from_storage
delta_from_storage(states, component_id, deleted_attributes) ==
    ProtocolStateDelta(
        component_id,
        from_storage(states, component_id, <<>>).attributes,
        {deleted_attributes[i] : i \in 1..Len(deleted_attributes)})

\* The elements of sequence q from index i on whose component, q[j][pos],
\* is c: the inner `while` loops of get_protocol_states_delta.
RECURSIVE SliceEnd(_, _, _, _)
SliceEnd(q, i, pos, c) ==
    IF i <= Len(q) /\ q[i][pos] = c THEN SliceEnd(q, i + 1, pos, c) ELSE i

\* get_protocol_states_delta, going forward: `for current_component_id in
\* all_component_ids`, with the index trackers of the two results.
RECURSIVE ForwardGroups(_, _, _, _, _)
ForwardGroups(ids, state_updates, deleted_attrs, updates_index, deletes_index) ==
    IF ids = <<>> THEN <<>>
    ELSE LET current_component_id == Head(ids)
             u == SliceEnd(state_updates, updates_index, 2,
                           current_component_id)
             d == SliceEnd(deleted_attrs, deletes_index, 1,
                           current_component_id)
             states_slice == SubSeq(state_updates, updates_index, u - 1)
             deleted_slice == SubSeq(deleted_attrs, deletes_index, d - 1)
         IN  <<delta_from_storage(
                 [i \in 1..Len(states_slice) |-> states_slice[i][1]],
                 current_component_id,
                 [i \in 1..Len(deleted_slice) |-> deleted_slice[i][2]])>>
             \o ForwardGroups(Tail(ids), state_updates, deleted_attrs, u, d)

\* The BTreeSet of component ids (external ids, strings), as the sequence
\* its iteration yields: in the order of the strings.
RECURSIVE OrderComponents(_)
OrderComponents(C) ==
    IF C = {} THEN <<>>
    ELSE LET m == CHOOSE x \in C :
                     \A y \in C : ExternalIdOrd(x) <= ExternalIdOrd(y)
         IN  <<m>> \o OrderComponents(C \ {m})

\* get_protocol_states_delta, going backwards: the rows of one component,
\* which follow each other, become one delta; a row with a previous value
\* is an update, a row without one a deletion.
RECURSIVE BackwardGroups(_)
BackwardGroups(res) ==
    IF res = <<>> THEN <<>>
    ELSE LET current_component_id == res[1][1]
             index == SliceEnd(res, 1, 1, current_component_id)
             states_slice == SubSeq(res, 1, index - 1)
             upd == {i \in 1..Len(states_slice) :
                        states_slice[i][3] # None}
         IN  <<ProtocolStateDelta(
                 current_component_id,
                 [a \in {states_slice[i][2] : i \in upd} |->
                    LET last == CHOOSE i \in upd :
                                   /\ states_slice[i][2] = a
                                   /\ \A j \in upd :
                                         states_slice[j][2] = a => j <= i
                    IN  states_slice[last][3][1]],
                 {states_slice[i][2] :
                     i \in (1..Len(states_slice)) \ upd})>>
             \o BackwardGroups(SubSeq(res, index, Len(res)))

\* get_protocol_states_delta(chain, start_version, end_version)
get_protocol_states_delta(s, chain, start_version, end_version) ==
    LET start_ts == VersionTs(s, start_version)
        end_ts == VersionTs(s, end_version)
    IN  IF start_ts <= end_ts
        THEN LET state_updates ==
                    forward_deltas_by_chain(s, chain, start_ts, end_ts)
                 deleted_attrs ==
                    deleted_attributes_by_chain(s, chain, start_ts, end_ts)
                 all_component_ids ==
                    {state_updates[i][2] : i \in 1..Len(state_updates)}
                    \cup {deleted_attrs[i][1] :
                             i \in 1..Len(deleted_attrs)}
             IN  ForwardGroups(OrderComponents(all_component_ids),
                               state_updates, deleted_attrs, 1, 1)
        ELSE BackwardGroups(
                 reverse_delta_by_chain(s, chain, start_ts, end_ts))

\* ------------------------------------------------------------ query spec

\* The writes of protocol states and component balances over up to
\* MaxBlock + 1 blocks, each block stored with its transactions, and the
\* queries on the store they leave; the call of a query and its result
\* are kept in calls.
QueryRows == 2

RECURSIVE UpsertTxs(_, _)
UpsertTxs(s, txs) ==
    IF txs = <<>> THEN StorageOk(s)
    ELSE LET r == upsert_tx(s, Head(txs))
         IN  IF r.ok THEN UpsertTxs(r.store, Tail(txs)) ELSE r

QueryUpsertBlock ==
    /\ LatestNumber(store) < MaxBlock + 1
    /\ LET n == LatestNumber(store) + 1
       IN  StoreReturn(UpsertTxs(upsert_block(store, Block(n)).store,
                                 <<Transaction(n, 1), Transaction(n, 2)>>))

\* A further row of family fam is written to the store; the queries of a
\* family read the rows of that family only, and a store is filled with
\* the rows of one family.
QueryCanWrite(s, fam) ==
    /\ Cardinality(s.rows) < QueryRows
    /\ LatestTxs(s) # {}
    /\ \A r \in s.rows : r.fam = fam

QueryUpdateProtocolStates ==
    /\ QueryCanWrite(store, "protocol_state")
    /\ \E t \in LatestTxs(store) :
          \E d \in DeltasOn(ProtocolComponents, t) :
             ConnReturn(update_protocol_states(store, <<<<t.hash, d>>>>))

\* add_component_balances is called with a balance of BalanceMenu and with
\* a block_ts of the caller's choice, the timestamp of the latest block or
\* of the first block; the call and whether it returned Ok are kept in
\* calls.
QueryAddComponentBalances ==
    /\ QueryCanWrite(store, "component_balance")
    /\ \E b \in BalanceMenu(store),
          block_ts \in {BlockTs(LatestNumber(store)), BlockTs(1)} :
          LET balances == <<b>>
              r == add_component_balances(store, balances, block_ts)
          IN  /\ store' = r.store
              /\ calls' = <<[op |-> "add_component_balances",
                             component_balances |-> balances,
                             block_ts |-> block_ts, ok |-> r.ok]>>
              /\ pre' = NoSnapshot
    /\ UNCHANGED storeFrame

\* The query has returned; it is made on the store a write has left.
QueryReturn(call) ==
    /\ store.blocks # {}
    /\ IF calls = <<>> THEN TRUE
       ELSE calls[1].op = "add_component_balances"
    /\ calls' = <<call>>
    /\ pre' = NoSnapshot
    /\ UNCHANGED <<store, storeFrame>>

\* The chains a query is called for: the two chains of the stored
\* components.
QueryChains == {"ethereum", "starknet"}
\* A query of a family is called on the stores that hold no row of another
\* family: it reads the rows of its family only.
QueryCanRead(s, fam) == \A r \in s.rows : r.fam = fam

\* get_protocol_states is called for a chain, without ids or with the ids
\* of a component of each chain.
QueryProtocolStates ==
    /\ QueryCanRead(store, "protocol_state")
    /\ \E chain \in QueryChains, at \in Versions(store),
          ids \in {None, Some({"state1", "state2"})} :
          QueryReturn([op |-> "get_protocol_states", chain |-> chain,
                       at |-> at, ids |-> ids,
                       result |-> get_protocol_states(store, chain, at, ids)])

QueryBalanceDeltas ==
    /\ QueryCanRead(store, "component_balance")
    /\ \E chain \in QueryChains, start \in Versions(store),
          target \in Versions(store) \ {None} :
          QueryReturn([op |-> "get_balance_deltas", chain |-> chain,
                       start |-> start, end |-> target,
                       result |-> get_balance_deltas(store, chain, start,
                                                     target)])

QueryProtocolStatesDelta ==
    /\ QueryCanRead(store, "protocol_state")
    /\ \E chain \in QueryChains, start \in Versions(store),
          end \in Versions(store) \ {None} :
          QueryReturn([op |-> "get_protocol_states_delta", chain |-> chain,
                       start |-> start, end |-> end,
                       result |-> get_protocol_states_delta(store, chain, start,
                                                            end)])

QueryNext ==
    \/ QueryUpsertBlock
    \/ QueryUpdateProtocolStates
    \/ QueryAddComponentBalances
    \/ QueryProtocolStates
    \/ QueryBalanceDeltas
    \/ QueryProtocolStatesDelta

QuerySpec == Init /\ [][QueryNext]_vars

\* --------------------------------------------------- get_protocol_states

\* get_protocol_states has just returned.
StatesQueried == calls # <<>> /\ calls[1].op = "get_protocol_states"
\* The components the call matches: the stored components of its chain,
\* among those of ids if ids are given.
Matching(q) ==
    {c \in ProtocolComponents :
        /\ ComponentChain(c) = q.chain
        /\ q.ids # None => c \in q.ids[1]}
\* The rows of component c (and attribute a) valid at the version of q.
ValidOf(q, c) ==
    {r \in store.rows :
        /\ r.fam = "protocol_state"
        /\ r.key[1] = c
        /\ r.valid_from <= VersionTs(store, q.at)
        /\ r.valid_to = None \/ r.valid_to[1] > VersionTs(store, q.at)}
ValidOfAttr(q, c, a) == {r \in ValidOf(q, c) : r.key[2] = a}
\* Row x was written by the latest transaction among the rows R.
LatestIn(R, x) ==
    /\ x \in R
    /\ \A y \in R :
          \/ y.valid_from < x.valid_from
          \/ /\ y.valid_from = x.valid_from
             /\ TxIndex(store, y) <= TxIndex(store, x)

\* C23: get_protocol_states(chain, at = V) returns one state for each
\* matching component (a component of the chain, among ids if given) with
\* a row valid at V and none for the others, components of another chain
\* included; the
\* attribute map of the state holds exactly the attributes with a row
\* valid at V, each with the value written by the latest transaction (by
\* block, then index) among these rows; at = None is the latest version.
C23_StatesAsOfVersion ==
    StatesQueried =>
       LET q == calls[1]
           res == q.result
       IN  /\ \A i \in 1..Len(res) : res[i].component_id \in Matching(q)
           /\ \A c \in Matching(q) :
                 LET of_c == {i \in 1..Len(res) : res[i].component_id = c}
                 IN  IF ValidOf(q, c) = {} THEN of_c = {}
                     ELSE /\ Cardinality(of_c) = 1
                          /\ \A i \in of_c :
                                /\ DOMAIN res[i].attributes
                                      = {r.key[2] : r \in ValidOf(q, c)}
                                /\ \A a \in DOMAIN res[i].attributes :
                                      \E x \in ValidOfAttr(q, c, a) :
                                         /\ LatestIn(ValidOfAttr(q, c, a), x)
                                         /\ res[i].attributes[a] = x.val
           /\ q.at = None =>
                 \A c \in Matching(q) : \A r \in ValidOf(q, c) :
                    r.valid_to = None

\* A query at a stored block found two valid rows of one attribute with
\* different values and returned a state for their component.
C23_Witness ==
    /\ StatesQueried
    /\ calls[1].at # None
    /\ calls[1].result # <<>>
    /\ \E c \in Matching(calls[1]) :
          \E x, y \in ValidOf(calls[1], c) :
             x.key = y.key /\ x.val # y.val

\* --------------------------------------------------------- delta queries

\* A delta query has just returned, and its direction.
BalanceDeltasQueried == calls # <<>> /\ calls[1].op = "get_balance_deltas"
StateDeltasQueried ==
    calls # <<>> /\ calls[1].op = "get_protocol_states_delta"
\* The rows of the chain the query was called for.
ChainBalances == BalanceRowsOf(store, calls[1].chain)
ChainStates == StateRowsOf(store, calls[1].chain)
StartTs == VersionTs(store, calls[1].start)
EndTs == VersionTs(store, calls[1].end)
\* The identity keys of the rows R, and the rows of R that became valid
\* in (lo, hi].
KeysOf(R) == {r.key : r \in R}
BecameValid(R, lo, hi) == {r \in R : r.valid_from > lo /\ r.valid_from <= hi}
\* The rows of R valid at ts.
ValidRows(R, ts) ==
    {r \in R : /\ r.valid_from <= ts
               /\ r.valid_to = None \/ r.valid_to[1] > ts}
\* The keys the deltas of a result report as updated and as deleted.
UpdatedKeys(res) ==
    UNION {{<<res[i].component_id, a>> :
              a \in DOMAIN res[i].updated_attributes} : i \in 1..Len(res)}
DeletedKeys(res) ==
    UNION {{<<res[i].component_id, a>> :
              a \in res[i].deleted_attributes} : i \in 1..Len(res)}
\* The keys of the balances of a result.
BalanceKeys(res) ==
    {<<res[i].component_id, res[i].token>> : i \in 1..Len(res)}
\* The value of key k as of ts is v: v is the value of the latest of the
\* rows of R of k valid at ts.
ValueAsOf(R, k, ts, v) ==
    \E x \in ValidRows(R, ts) :
       /\ x.key = k /\ x.val = v
       /\ LatestIn({r \in ValidRows(R, ts) : r.key = k}, x)

\* C24 as stated: for start <= end a delta query returns an entry for
\* exactly the identity keys with a row with valid_from in (start, end],
\* and each entry carries the value of its key as of end.
C24_ForwardDeltaByValidFrom ==
    /\ (BalanceDeltasQueried /\ StartTs <= EndTs) =>
          LET res == calls[1].result
          IN  /\ BalanceKeys(res)
                    = KeysOf(BecameValid(ChainBalances, StartTs, EndTs))
              /\ \A i \in 1..Len(res) :
                    ValueAsOf(ChainBalances,
                              <<res[i].component_id, res[i].token>>, EndTs,
                              res[i].new_balance)
    /\ (StateDeltasQueried /\ StartTs <= EndTs) =>
          LET res == calls[1].result
          IN  /\ UpdatedKeys(res) \cup DeletedKeys(res)
                    = KeysOf(BecameValid(ChainStates, StartTs, EndTs))
              /\ \A i \in 1..Len(res) :
                    \A a \in DOMAIN res[i].updated_attributes \cup
                             res[i].deleted_attributes :
                       /\ a \in DOMAIN res[i].updated_attributes
                       /\ ValueAsOf(ChainStates,
                                    <<res[i].component_id, a>>, EndTs,
                                    res[i].updated_attributes[a])

\* C24, amended: for start <= end, get_balance_deltas returns one entry
\* for each component and token with a row that became valid in
\* (start, end] and is valid at end, with the balance and transaction of
\* the latest such row; get_protocol_states_delta returns one delta for
\* each component it reports on, in which an attribute is updated, with
\* its value as of end, if a row of it became valid in (start, end] and
\* one is valid at end, and is deleted if a row of it was closed in
\* (start, end] and none is valid at end.
C24_ForwardDelta ==
    /\ (BalanceDeltasQueried /\ StartTs <= EndTs) =>
          LET res == calls[1].result
              R == ValidRows(BecameValid(ChainBalances, StartTs, EndTs),
                             EndTs)
          IN  /\ BalanceKeys(res) = KeysOf(R)
              /\ Cardinality(BalanceKeys(res)) = Len(res)
              /\ \A i \in 1..Len(res) :
                    \E x \in R :
                       /\ res[i] = BalanceOfRow(x)
                       /\ LatestIn({r \in R : r.key = x.key}, x)
    /\ (StateDeltasQueried /\ StartTs <= EndTs) =>
          LET res == calls[1].result
              S == ChainStates
          IN  /\ UpdatedKeys(res)
                    = KeysOf(BecameValid(S, StartTs, EndTs))
                      \cap KeysOf(ValidRows(S, EndTs))
              /\ DeletedKeys(res)
                    = {r.key : r \in {x \in S :
                                         /\ x.valid_to # None
                                         /\ x.valid_to[1] > StartTs
                                         /\ x.valid_to[1] <= EndTs}}
                      \ KeysOf(ValidRows(S, EndTs))
              /\ \A i, j \in 1..Len(res) :
                    res[i].component_id = res[j].component_id => i = j
              /\ \A i \in 1..Len(res) :
                    /\ DOMAIN res[i].updated_attributes # {}
                       \/ res[i].deleted_attributes # {}
                    /\ \A a \in DOMAIN res[i].updated_attributes :
                          ValueAsOf(S, <<res[i].component_id, a>>, EndTs,
                                    res[i].updated_attributes[a])

\* A forward protocol state delta reports an attribute as deleted that has
\* no row that became valid in the window.
C24_Witness ==
    /\ StateDeltasQueried
    /\ StartTs < EndTs
    /\ \E k \in DeletedKeys(calls[1].result) :
          k \notin KeysOf(BecameValid(ChainStates, StartTs, EndTs))

\* The rows of R that became valid in [lo, hi).
BecameValidFrom(R, lo, hi) ==
    {r \in R : r.valid_from >= lo /\ r.valid_from < hi}

\* C25 as stated: for end < start a delta query returns an entry for
\* exactly the identity keys with a row with valid_from in [end, start),
\* each with the value valid as of end; a protocol attribute without a row
\* valid as of end is reported as deleted, one with such a row as updated
\* with its value.
C25_BackwardDeltaByValidFrom ==
    /\ (BalanceDeltasQueried /\ EndTs < StartTs) =>
          LET res == calls[1].result
          IN  /\ BalanceKeys(res)
                    = KeysOf(BecameValidFrom(ChainBalances, EndTs,
                                             StartTs))
              /\ \A i \in 1..Len(res) :
                    ValueAsOf(ChainBalances,
                              <<res[i].component_id, res[i].token>>, EndTs,
                              res[i].new_balance)
    /\ (StateDeltasQueried /\ EndTs < StartTs) =>
          LET res == calls[1].result
              S == ChainStates
              changed == KeysOf(BecameValidFrom(S, EndTs, StartTs))
          IN  /\ UpdatedKeys(res) \cup DeletedKeys(res) = changed
              /\ DeletedKeys(res) = changed \ KeysOf(ValidRows(S, EndTs))
              /\ \A i \in 1..Len(res) :
                    \A a \in DOMAIN res[i].updated_attributes :
                       ValueAsOf(S, <<res[i].component_id, a>>, EndTs,
                                 res[i].updated_attributes[a])
\* ---------------------------------------------------------- account deltas

ContractFamilies == {"contract_storage", "account_balance", "contract_code"}
\* The value of a slot, balance or code as of timestamp ts, 0 if it has
\* none.
ContractValueAt(s, fam, key, ts) ==
    IF ValidAt(s.rows, fam, key, ts) = {} THEN 0
    ELSE (CHOOSE r \in ValidAt(s.rows, fam, key, ts) : TRUE).val

\* The slots, balances and codes whose state changed in (lo, hi]: a row of
\* the key became valid in the window, or a row of it was closed in the
\* window (by a later write or, without a new row, by delete_contract).
ChangedIn(s, lo, hi) ==
    {<<r.fam, r.key>> : r \in {x \in s.rows :
        /\ x.fam \in ContractFamilies
        /\ \/ x.valid_from > lo /\ x.valid_from <= hi
           \/ x.valid_to # None /\ x.valid_to[1] > lo /\ x.valid_to[1] <= hi}}

\* get_accounts_delta with the windows of the delta algorithm read to the
\* letter: the keys with a row whose valid_from is in (start, end] going
\* forward and in [end, start) going backwards.
get_accounts_delta_byValidFrom(s, start_version, end_version) ==
    LET start_ts == VersionTs(s, start_version)
        end_ts == VersionTs(s, Some(end_version))
        changed == {<<r.fam, r.key>> : r \in {x \in s.rows :
                      /\ x.fam \in ContractFamilies
                      /\ IF start_ts <= end_ts
                         THEN x.valid_from > start_ts /\ x.valid_from <= end_ts
                         ELSE x.valid_from >= end_ts /\ x.valid_from < start_ts}}
    IN  {[address |-> k[2][1], fam |-> k[1], key |-> k[2],
          val |-> ContractValueAt(s, k[1], k[2], end_ts)] : k \in changed}

\* get_accounts_delta(chain, start_version, end_version): one delta for
\* each account whose state differs between the two versions, which
\* holds, for every slot, balance and code that changed between them, its
\* value as of the end version (0 if it has none there); start_version
\* None is the latest version.  A version given as a block is the state
\* at the end of that block (`VersionKind::Last`), so the changes between
\* two versions are those of the blocks after the earlier and up to the
\* later one, (end, start] going backwards: test_revert reverts to block 0
\* and expects slot 42 and the balance, which block 1 wrote, and neither
\* slot 1 nor the code, which block 0 itself wrote.  The delta algorithm
\* of the specification words the backward window as [end, start) and
\* names valid_from only; get_accounts_delta_byValidFrom is that reading,
\* which test_revert contradicts.  A row closed in the window without a
\* new row (delete_contract) is a change of the account's state as well,
\* as a deleted attribute is in get_protocol_states_delta.
get_accounts_delta(s, start_version, end_version) ==
    LET start_ts == VersionTs(s, start_version)
        end_ts == VersionTs(s, Some(end_version))
        lo == IF start_ts <= end_ts THEN start_ts ELSE end_ts
        hi == IF start_ts <= end_ts THEN end_ts ELSE start_ts
    IN  {[address |-> k[2][1], fam |-> k[1], key |-> k[2],
          val |-> ContractValueAt(s, k[1], k[2], end_ts)] :
            k \in ChangedIn(s, lo, hi)}

\* The slots, balance and code store s holds for an account.
AccountKeys(s, address) ==
    {<<r.fam, r.key>> : r \in {x \in s.rows : /\ x.fam \in ContractFamilies
                                              /\ x.key[1] = address}}
\* The value of key k after the delta is written over the state as of ts.
AppliedDelta(s, delta, k, ts) ==
    IF \E e \in delta : <<e.fam, e.key>> = k
    THEN (CHOOSE e \in delta : <<e.fam, e.key>> = k).val
    ELSE ContractValueAt(s, k[1], k[2], ts)

\* C26: for any two stored versions, writing get_accounts_delta(start, end)
\* over the state as of start gives, for every account in the delta, the
\* state of that account as of end, for each of its slots, its balance and
\* its code; forwards and backwards, and across a delete_contract.
C26_DeltaMovesStartToEnd ==
    \A start_version \in Versions(store) :
      \A b \in store.blocks :
        LET delta == get_accounts_delta(store, start_version, b.number)
        IN  \A address \in {e.address : e \in delta} :
              \A k \in AccountKeys(store, address) :
                 AppliedDelta(store, delta, k,
                              VersionTs(store, start_version))
                   = ContractValueAt(store, k[1], k[2], b.ts)
\* A store on which a forward and a backward delta between two blocks both
\* change a slot of the account, while another value of the account is
\* the same at both blocks and in neither delta.
C26_Witness ==
    \E b1, b2 \in store.blocks :
       /\ b1.number < b2.number
       /\ \E e \in get_accounts_delta(store, Some(b1.number), b2.number) :
             /\ e.fam = "contract_storage"
             /\ e.val # ContractValueAt(store, e.fam, e.key, b1.ts)
       /\ \E e \in get_accounts_delta(store, Some(b2.number), b1.number) :
             /\ e.fam = "contract_storage"
             /\ e.val # ContractValueAt(store, e.fam, e.key, b2.ts)
             /\ \E k \in AccountKeys(store, e.address) :
                   /\ ContractValueAt(store, k[1], k[2], b1.ts) # 0
                   /\ \A d \in get_accounts_delta(store, Some(b2.number),
                                                  b1.number) :
                         <<d.fam, d.key>> # k
\* An account whose state differs between two versions is in the delta.
DeltaNamesEveryChangedAccount ==
    \A start_version \in Versions(store) :
      \A b \in store.blocks :
        \A r \in {x \in store.rows : x.fam \in ContractFamilies} :
           ContractValueAt(store, r.fam, r.key,
                           VersionTs(store, start_version))
              # ContractValueAt(store, r.fam, r.key, b.ts)
           => \E e \in get_accounts_delta(store, start_version, b.number) :
                 e.address = r.key[1]
\* A delta across a delete_contract: the account was deleted in the later
\* block, and the deltas between the two blocks carry a value that the
\* deletion closed without writing a row, 0 going forward and the value
\* before the deletion going backwards.
DeltaAcrossDeletion ==
    \E b1, b2 \in store.blocks :
       /\ b1.number < b2.number
       /\ \E a \in store.accounts : a.deleted_ts = Some(b2.ts)
       /\ \E e \in get_accounts_delta(store, Some(b1.number), b2.number) :
             /\ e.val = 0
             /\ ContractValueAt(store, e.fam, e.key, b1.ts) # 0
             /\ \A r \in store.rows :
                   (r.fam = e.fam /\ r.key = e.key) => r.valid_from <= b1.ts
             /\ \E d \in get_accounts_delta(store, Some(b2.number),
                                              b1.number) :
                   /\ d.fam = e.fam /\ d.key = e.key
                   /\ d.val = ContractValueAt(store, e.fam, e.key, b1.ts)

\* ------------------------------------------------------ normalisation spec

\* The operations of the normalisation layer applied to the updates a
\* payload can carry.  Every operation is applied once, to inputs drawn from
\* the sets below, and recorded in calls.
MaxUpdates == 2

\* A second account.
OTHER_CONTRACT == "0xe688b84b23f322a994a53dbf8e15fa82cdb71127"
NormSlots == {1, 2}
\* What an update sets: the slots it writes, whether it sets the balance
\* and the code, and its change type.
UpdateShapes ==
    [slots : {{}, {1}, {1, 2}}, balance : BOOLEAN, code : BOOLEAN,
     change : {"Creation", "Update"}]
\* The update of shape sh that transaction tx makes to the account at
\* address: every value it writes is the index of the transaction.
NormUpdate(address, sh, tx) ==
    [AccountUpdateWithTx([k \in sh.slots |-> tx.index],
                         IF sh.balance THEN Some(tx.index) ELSE None,
                         IF sh.code THEN Some(tx.index) ELSE None,
                         sh.change, tx)
       EXCEPT !.address = address]
\* The updates of transaction tx: any shape on the first account, a balance
\* update on the second.
UpdatesOfTx(tx) ==
    {NormUpdate(AMBIENT_CONTRACT, sh, tx) : sh \in UpdateShapes}
    \cup {NormUpdate(OTHER_CONTRACT,
                     [slots |-> {}, balance |-> TRUE, code |-> FALSE,
                      change |-> "Update"], tx)}

\* Transactions with any combination of hash, block and index.
AnyTxs ==
    [hash : {<<"tx", 1, 1>>, <<"tx", 1, 2>>},
     block_hash : {BlockHash(1), BlockHash(2)}, index : TxIndices]

NormReturn(call) ==
    /\ calls' = <<call>>
    /\ pre' = NoSnapshot
    /\ UNCHANGED <<store, storeFrame>>

\* self.merge(other) for two updates of any two transactions.
NormMerge ==
    /\ calls = <<>>
    /\ \E t1, t2 \in AnyTxs :
          \E self \in UpdatesOfTx(t1), other \in UpdatesOfTx(t2) :
             NormReturn([op |-> "merge", self |-> self, other |-> other,
                         result |-> merge(self, other)])

\* The payloads of block 1: up to MaxUpdates contract changes, in any order
\* of their transactions; a transaction can carry several changes.
NormPayloads ==
    [block : {Some(Block(1))},
     changes : SeqsUpTo(UNION {UpdatesOfTx(Transaction(1, i))
                               : i \in TxIndices}, MaxUpdates)]

\* try_from_message(msg)?.aggregate_updates()
NormAggregate ==
    /\ calls = <<>>
    /\ \E msg \in NormPayloads :
          \E parsed \in try_from_message(msg) :
             NormReturn([op |-> "aggregate_updates", msg |-> msg,
                         parsed |-> parsed,
                         result |-> aggregate_updates(parsed.value)])

\* The stores a block is written to: the empty store, and the store after
\* the block that created the account.
NormStores ==
    {EmptyStore,
     forward(EmptyStore,
             [block |-> Block(1),
              tx_updates |-> <<NormUpdate(AMBIENT_CONTRACT,
                                 [slots |-> {1}, balance |-> TRUE,
                                  code |-> TRUE, change |-> "Creation"],
                                 Transaction(1, 1))>>],
             CursorOf(0), "none").store}
\* The next block of store s.
NextBlock(s) == LatestNumber(s) + 1

\* forward for a block in which two transactions touch the account, and
\* forward for the same block with the two updates merged into one.
NormForward ==
    /\ calls = <<>>
    /\ \E s \in NormStores :
          \E sh1, sh2 \in UpdateShapes :
             LET u1 == NormUpdate(AMBIENT_CONTRACT, sh1,
                                  Transaction(NextBlock(s), 1))
                 u2 == NormUpdate(AMBIENT_CONTRACT, sh2,
                                  Transaction(NextBlock(s), 2))
                 merged == merge(u1, u2)
             IN  NormReturn(
                   [op |-> "forward", before |-> s, updates |-> <<u1, u2>>,
                    merged |-> merged,
                    separate |-> forward(s, [block |-> Block(NextBlock(s)),
                                             tx_updates |-> <<u1, u2>>],
                                         CursorOf(0), "none"),
                    single |-> IF merged.ok
                               THEN forward(s, [block |-> Block(NextBlock(s)),
                                                tx_updates |-> <<merged.value>>],
                                            CursorOf(0), "none")
                               ELSE StorageErr(s, "Unexpected")])

NormNext ==
    \/ NormMerge
    \/ NormAggregate
    \/ NormForward

NormSpec == Init /\ [][NormNext]_vars

\* --------------------------------------------------------------- merge

Merged == calls # <<>> /\ calls[1].op = "merge"
IsUnknown(r) == ~r.ok /\ r.err.kind = "Unknown"

\* C27: merge(self, other) succeeds only if the two transactions have the
\* same block hash, different hashes, and other's index is strictly greater
\* than self's; every other combination fails with ExtractionError::Unknown.
C27_MergeNeedsStrictlyLaterTx ==
    Merged =>
       LET self == calls[1].self
           other == calls[1].other
           allowed == /\ self.tx.block_hash = other.tx.block_hash
                      /\ self.tx.hash # other.tx.hash
                      /\ other.tx.index > self.tx.index
       IN  /\ calls[1].result.ok => allowed
           /\ ~allowed => IsUnknown(calls[1].result)

\* ----------------------------------------------------------- aggregation

Aggregated ==
    calls # <<>> /\ calls[1].op = "aggregate_updates" /\ calls[1].parsed.ok
\* The updates of an address in the parsed message, in its order.
UpdatesFor(address) ==
    SelectSeq(calls[1].parsed.value.tx_updates,
              LAMBDA u : u.address = address)
\* Every transaction carries at most one update of an address.
OneUpdatePerTx ==
    \A i, j \in DOMAIN calls[1].parsed.value.tx_updates :
       LET us == calls[1].parsed.value.tx_updates
       IN  (i # j /\ us[i].address = us[j].address)
              => us[i].tx.hash # us[j].tx.hash
\* The last update of us for which P holds.
LastWith(us, P(_)) ==
    us[CHOOSE i \in DOMAIN us :
          P(us[i]) /\ \A j \in DOMAIN us : P(us[j]) => j <= i]
\* The option the fold leaves for a field: that of the latest update that
\* set it, None if none did.
LatestSet(us, Field(_)) ==
    IF \E i \in DOMAIN us : IsSome(Field(us[i]))
    THEN Field(LastWith(us, LAMBDA u : IsSome(Field(u))))
    ELSE None
BalanceOf(u) == u.balance
CodeOf(u) == u.code

\* C28: folding the per-transaction updates of a block in ascending
\* transaction index gives, for every address, one update: each slot has the
\* value of the latest update that wrote it, balance and code are those of
\* the latest update that set them, the change type is that of the
\* earliest update.
C28_FoldKeepsLatest ==
    (Aggregated /\ OneUpdatePerTx) =>
       /\ calls[1].result.ok
       /\ \A address \in {AMBIENT_CONTRACT, OTHER_CONTRACT} :
            LET us == UpdatesFor(address)
                folded == {u \in calls[1].result.value.account_updates :
                             u.address = address}
            IN  IF us = <<>> THEN folded = {}
                ELSE /\ Cardinality(folded) = 1
                     /\ \A u \in folded :
                          /\ DOMAIN u.slots
                               = UNION {DOMAIN us[i].slots : i \in DOMAIN us}
                          /\ \A k \in DOMAIN u.slots :
                                u.slots[k]
                                  = LastWith(us, LAMBDA x :
                                               k \in DOMAIN x.slots).slots[k]
                          /\ u.balance = LatestSet(us, BalanceOf)
                          /\ u.code = LatestSet(us, CodeOf)
                          /\ u.change = us[1].change
\* Two transactions update the account: the first creates it and sets two
\* slots, the balance and the code, the second updates one of the slots
\* only; the fold has the second's value in that slot and the first's
\* elsewhere.
C28_Witness ==
    /\ Aggregated
    /\ OneUpdatePerTx
    /\ LET us == UpdatesFor(AMBIENT_CONTRACT)
       IN  /\ Len(us) = 2
           /\ us[1].change = "Creation" /\ us[2].change = "Update"
           /\ DOMAIN us[1].slots = {1, 2} /\ DOMAIN us[2].slots = {1}
           /\ IsSome(us[1].balance) /\ us[2].balance = None
           /\ IsSome(us[1].code) /\ us[2].code = None
           /\ \E u \in calls[1].result.value.account_updates :
                 /\ u.slots[1] = us[2].slots[1] /\ u.slots[1] # us[1].slots[1]
                 /\ u.slots[2] = us[1].slots[2]
                 /\ u.balance = us[1].balance
                 /\ u.change = "Creation"

\* A transaction of the payload carries two updates of one account.
SameTxTwice ==
    \E i, j \in DOMAIN calls[1].msg.changes :
       LET cs == calls[1].msg.changes
       IN  /\ i # j
           /\ cs[i].address = cs[j].address
           /\ cs[i].tx.hash = cs[j].tx.hash

\* C29 as stated: when one transaction of a block produces several updates
\* against the same account, normalisation merges them into a single update
\* of that account and does not fail.
C29_SameTxUpdatesAreMerged ==
    (Aggregated /\ SameTxTwice) =>
       /\ calls[1].result.ok
       /\ \A address \in {u.address : u \in Range(calls[1].msg.changes)} :
             Cardinality({u \in calls[1].result.value.account_updates :
                            u.address = address}) = 1

\* C29, amended: when one transaction of a block produces several updates
\* against the same account, try_from_message keeps every one of them as
\* an update of its own in tx_updates, and aggregate_updates fails with
\* ExtractionError::Unknown.
C29_SameTxUpdatesAreRejected ==
    (Aggregated /\ SameTxTwice) =>
       /\ \E p \in Orders(DOMAIN calls[1].msg.changes) :
             calls[1].parsed.value.tx_updates
               = [i \in DOMAIN calls[1].msg.changes |->
                    calls[1].msg.changes[p[i]]]
       /\ IsUnknown(calls[1].result)
       /\ calls[1].result.err.msg = <<"same transaction">>
\* A payload in which one transaction updates two slots of the account in
\* two updates has been aggregated, and the aggregation failed.
C29_Witness ==
    /\ Aggregated
    /\ SameTxTwice
    /\ Len(calls[1].msg.changes) = 2
    /\ \A i \in 1..2 : calls[1].msg.changes[i].change = "Update"
    /\ ~calls[1].result.ok

\* ------------------------------------------------- merged and separate writes

Forwarded == calls # <<>> /\ calls[1].op = "forward"
\* The store after forward returned r in a transaction on store s: a failed
\* forward is rolled back.
Committed(s, r) == IF r.ok THEN r.store ELSE s
\* The materialized account: its currently valid slots, balance and code.
Materialized(s, address) ==
    {<<r.fam, r.key, r.val>> : r \in {x \in s.rows :
        /\ x.fam \in ContractFamilies
        /\ x.key[1] = address
        /\ x.valid_to = None}}
SeparateAccount ==
    Materialized(Committed(calls[1].before, calls[1].separate),
                 AMBIENT_CONTRACT)
SingleAccount ==
    Materialized(Committed(calls[1].before, calls[1].single),
                 AMBIENT_CONTRACT)

\* C30 as stated: for an account touched by two transactions of one block,
\* writing the two updates one after the other leaves the same materialized
\* account (slots, balance, code) as writing their merge.
C30_SeparateEqualsMerged ==
    (Forwarded /\ calls[1].merged.ok) => SeparateAccount = SingleAccount

\* C30, amended: the same, provided the update of the later transaction is
\* not a creation.
C30_SeparateEqualsMergedUnlessCreatedLater ==
    (Forwarded /\ calls[1].merged.ok
       /\ ~is_creation(calls[1].updates[2])) =>
          SeparateAccount = SingleAccount
\* Both ways of writing succeeded on a stored account; the first update
\* wrote two slots and the balance, the second one of the slots, and the
\* account holds the second's value in that slot.
C30_Witness ==
    /\ Forwarded
    /\ calls[1].separate.ok /\ calls[1].single.ok
    /\ calls[1].before # EmptyStore
    /\ DOMAIN calls[1].updates[1].slots = {1, 2}
    /\ IsSome(calls[1].updates[1].balance)
    /\ DOMAIN calls[1].updates[2].slots = {1}
    /\ calls[1].updates[2].balance = None
    /\ <<"contract_storage", <<AMBIENT_CONTRACT, 1>>,
         calls[1].updates[2].slots[1]>> \in SeparateAccount
    /\ <<"contract_storage", <<AMBIENT_CONTRACT, 2>>,
         calls[1].updates[1].slots[2]>> \in SingleAccount
    /\ <<"account_balance", <<AMBIENT_CONTRACT, 0>>,
         calls[1].updates[1].balance[1]>> \in SingleAccount

\* ------------------------------------------------ protocol state batches

\* update_protocol_states called with batches of deltas of any stored
\* transactions; the store before the call is kept in pre and the batch in
\* calls.
BatchRows == 2

StatesUpsertBlock ==
    /\ LatestNumber(store) < MaxBlock
    /\ LET n == LatestNumber(store) + 1
       IN  StoreReturn(UpsertTxs(upsert_block(store, Block(n)).store,
                                 <<Transaction(n, 1), Transaction(n, 2)>>))

\* The batches of one or two deltas of stored transactions, in any order.
AnyStateBatches(s) ==
    LET entries == UNION {{<<t.hash, d>> : d \in DeltasOf(t)} : t \in s.txs}
    IN  SeqsUpTo(entries, 2) \ {<<>>}

StatesUpdateProtocolStates ==
    /\ Cardinality(store.rows) < BatchRows
    /\ \E new \in AnyStateBatches(store) :
          LET r == update_protocol_states(store, new)
          IN  /\ store' = r.store
              /\ calls' = <<[op |-> "update_protocol_states", new |-> new]>>
              /\ pre' = Snapshot(store, cursor, 0, <<>>,
                                 IF r.ok THEN "ok" ELSE "err")
    /\ UNCHANGED storeFrame

StatesNext ==
    \/ StatesUpsertBlock
    \/ StatesUpdateProtocolStates

StatesSpec == Init /\ [][StatesNext]_vars

StatesUpdated ==
    /\ calls # <<>>
    /\ calls[1].op = "update_protocol_states"
    /\ pre.status = "ok"
\* The (tx hash, delta) pairs of the batch.
BatchEntries == Range(calls[1].new)
\* Transaction h1 is at or before transaction h2 in block-then-index order.
TxAtOrBefore(s, h1, h2) ==
    \/ TxTs(s, h1) < TxTs(s, h2)
    \/ /\ TxTs(s, h1) = TxTs(s, h2)
       /\ TxByHash(s, h1).index <= TxByHash(s, h2).index

\* C31: after update_protocol_states applied a delta of transaction t that
\* deletes attribute a of component c, no row of (c, a) written at or
\* before t is currently valid, and the rows of (c, a) that were valid
\* before the call are closed at the timestamp of the block of a deleting
\* transaction.  A row that t itself writes in the same call is not counted
\* as written before t.
C31_DeletedAttributeIsClosed ==
    StatesUpdated =>
       \A e \in BatchEntries :
          \A a \in e[2].deleted_attributes :
             \A r \in store.rows :
                (/\ r.fam = "protocol_state"
                 /\ r.key = <<e[2].component_id, a>>
                 /\ TxAtOrBefore(store, r.modify_tx, e[1])
                 /\ (r.modify_tx # e[1]
                       \/ [r EXCEPT !.valid_to = None] \in pre.store.rows))
                   => /\ r.valid_to # None
                      /\ [r EXCEPT !.valid_to = None] \in pre.store.rows
                            => \E d \in BatchEntries :
                                  /\ a \in d[2].deleted_attributes
                                  /\ r.valid_to = Some(TxTs(store, d[1]))

\* The keys for which the batch holds several deltas that set them.
KeysSetTwice ==
    {k \in {<<e[2].component_id, a>> :
              <<e, a>> \in BatchEntries \X Attributes} :
        \E i, j \in DOMAIN calls[1].new :
           /\ i # j
           /\ calls[1].new[i][2].component_id = k[1]
           /\ calls[1].new[j][2].component_id = k[1]
           /\ k[2] \in DOMAIN calls[1].new[i][2].updated_attributes
           /\ k[2] \in DOMAIN calls[1].new[j][2].updated_attributes}
\* The rows of key k the call has inserted.
InsertedRows(k) ==
    {r \in store.rows :
        /\ r.fam = "protocol_state" /\ r.key = k
        /\ \A p \in pre.store.rows : [p EXCEPT !.valid_to = r.valid_to] # r}

\* C36: when a batch holds several deltas that set one (component,
\* attribute), exactly one of the rows inserted for the key is open, the
\* one of the latest transaction in block-then-index order; every other
\* inserted row is closed at the valid_from of the next later row of the
\* key, which is not earlier than its own valid_from.
C36_BatchLeavesLatestOpen ==
    StatesUpdated =>
       \A k \in KeysSetTwice :
          LET open == {r \in InsertedRows(k) : r.valid_to = None}
          IN  /\ Cardinality(open) = 1
              /\ \A r \in open, x \in InsertedRows(k) :
                    TxAtOrBefore(store, x.modify_tx, r.modify_tx)
              /\ \A r \in InsertedRows(k) \ open :
                    /\ r.valid_to[1] >= r.valid_from
                    /\ \E n \in InsertedRows(k) :
                          /\ n # r
                          /\ TxAtOrBefore(store, r.modify_tx, n.modify_tx)
                          /\ r.valid_to = Some(n.valid_from)

\* ---------------------------------------------------------- post processors

\* Bytes, by length in bytes and numeric value.
Bytes(len, val) == [len |-> len, val |-> val]
\* Bytes::from(U256::zero()): 32 zero bytes.
ZeroU256Bytes == Bytes(32, 0)
\* Bytes::from(1_u64.to_be_bytes())
OneU64Bytes == Bytes(8, 1)

\* const USV3_MANDATORY_ATTRIBUTES, const USV2_MANDATORY_ATTRIBUTES
USV3_MANDATORY_ATTRIBUTES == <<"liquidity", "tick", "sqrt_price_x96">>
USV2_MANDATORY_ATTRIBUTES == <<"reserve0", "reserve1">>
\* static STABLE_SWAP_FACTORY, static PLAIN_POOL
STABLE_SWAP_FACTORY == "stable_swap_factory"
PLAIN_POOL == "plain_pool"

\* Mutant of add_default_attributes: a mandatory attribute that is present
\* is set to zero as well.
AddDefaults_overwrite(tx, attributes) ==
    LET new == DOMAIN tx.new_protocol_components
        states == tx.protocol_states
        mandatory == Range(attributes)
    IN  [tx EXCEPT !.protocol_states =
           [c_id \in DOMAIN states \cup new |->
              IF c_id \notin new THEN states[c_id]
              ELSE IF c_id \in DOMAIN states
              THEN [states[c_id] EXCEPT !.updated_attributes =
                      [a \in DOMAIN @ \cup mandatory |->
                         IF a \in mandatory THEN ZeroU256Bytes ELSE @[a]]]
              ELSE ProtocolStateDelta(
                       c_id, [a \in mandatory |-> ZeroU256Bytes], {})]]

\* add_default_attributes, `for c_id in tx.new_protocol_components.keys()`
\* for one element of txs_with_update.
AddDefaults(tx, attributes) ==
    LET new == DOMAIN tx.new_protocol_components
        states == tx.protocol_states
        mandatory == Range(attributes)
    IN  [tx EXCEPT !.protocol_states =
           [c_id \in DOMAIN states \cup new |->
              IF c_id \notin new THEN states[c_id]
              ELSE IF c_id \in DOMAIN states
              THEN [states[c_id] EXCEPT !.updated_attributes =
                      [a \in DOMAIN @ \cup mandatory |->
                         IF a \in DOMAIN @ THEN @[a] ELSE ZeroU256Bytes]]
              ELSE ProtocolStateDelta(
                       c_id, [a \in mandatory |-> ZeroU256Bytes], {})]]

\* add_default_attributes
add_default_attributes(changes, attributes) ==
    [changes EXCEPT !.txs_with_update =
        [i \in DOMAIN @ |-> AddDefaults(@[i], attributes)]]

\* Vec::retain(|token| token != &H160::zero())
RECURSIVE RetainNonZero(_)
RetainNonZero(tokens) ==
    IF tokens = <<>> THEN <<>>
    ELSE IF Head(tokens) # 0 THEN <<Head(tokens)>> \o RetainNonZero(Tail(tokens))
    ELSE RetainNonZero(Tail(tokens))

\* trim_curve_component_token, the body of `for component in
\* tx.protocol_components.values_mut()`.
TrimComponent(component) ==
    IF /\ "factory_name" \in DOMAIN component.static_attributes
       /\ component.static_attributes["factory_name"] = STABLE_SWAP_FACTORY
       /\ "pool_type" \in DOMAIN component.static_attributes
       /\ component.static_attributes["pool_type"] = PLAIN_POOL
    THEN [component EXCEPT !.tokens = RetainNonZero(@)]
    ELSE component

\* trim_curve_component_token
trim_curve_component_token(changes) ==
    [changes EXCEPT !.tx_updates =
        [i \in DOMAIN @ |->
           [@[i] EXCEPT !.protocol_components =
              [c \in DOMAIN @ |-> TrimComponent(@[c])]]]]

\* The post processors applied to the blocks a protocol's substream can
\* deliver; each call is kept in calls.
MaxTxUpdates == 2

CREATED_CONTRACT == "0xB4e16d0168e52d35CaCD2c6185b44281Ec28C9Dc"
SECOND_CONTRACT == "0xA478c2975Ab1Ea89e8196811F51A7B7Ade33eB11"
\* evm::ProtocolComponent: the fields the post processors read.
ProtocolComponent(id, tokens, static_attributes) ==
    [id |-> id, tokens |-> tokens, static_attributes |-> static_attributes]

\* The maps over the subsets of S whose value for x is a member of M(x).
MapsOver(S, M(_)) ==
    UNION {{f \in [T -> UNION {M(x) : x \in T}] : \A x \in T : f[x] \in M(x)}
           : T \in SUBSET S}

\* The state deltas a transaction can carry for a component.
StateMenu(c) ==
    IF c = CREATED_CONTRACT
    THEN {ProtocolStateDelta(c, [a \in {} |-> OneU64Bytes], {}),
          ProtocolStateDelta(c, [a \in {"tick"} |-> OneU64Bytes], {}),
          ProtocolStateDelta(c, [a \in {"reserve0", "fee"} |-> OneU64Bytes],
                             {"reserve1"})}
    ELSE {ProtocolStateDelta(c, [a \in {"tick"} |-> OneU64Bytes], {})}
NewComponentMenu(c) == {ProtocolComponent(c, <<1, 2>>, [a \in {} |-> ""])}

\* ProtocolChangesWithTx of the i-th transaction of block 1.
ProtocolChangesWithTx(i) ==
    [tx : {Transaction(1, i)},
     protocol_states : MapsOver({CREATED_CONTRACT, SECOND_CONTRACT},
                                StateMenu),
     new_protocol_components : MapsOver({CREATED_CONTRACT, SECOND_CONTRACT},
                                        NewComponentMenu)]
\* The sequences whose i-th element is a member of M(i), up to length n.
SeqsBy(M(_), n) ==
    LET OfLen[k \in 0..n] ==
            IF k = 0 THEN {<<>>}
            ELSE {Append(s, x) : s \in OfLen[k - 1], x \in M(k)}
    IN  UNION {OfLen[k] : k \in 0..n}
\* BlockEntityChanges of block n.
BlockEntityChanges(n) ==
    [block : {Block(n)},
     txs_with_update : SeqsBy(ProtocolChangesWithTx, MaxTxUpdates)]

CompatReturn(call) ==
    /\ calls' = <<call>>
    /\ pre' = NoSnapshot
    /\ UNCHANGED <<store, storeFrame>>

\* add_default_attributes_uniswapv2, add_default_attributes_uniswapv3
CompatAddDefaultAttributes ==
    /\ calls = <<>>
    /\ \E changes \in BlockEntityChanges(1),
          attributes \in {USV2_MANDATORY_ATTRIBUTES,
                          USV3_MANDATORY_ATTRIBUTES} :
          CompatReturn([op |-> "add_default_attributes",
                        changes |-> changes, attributes |-> attributes,
                        result |-> add_default_attributes(changes,
                                                          attributes)])

\* The token lists and static attributes of a component.
TokenLists ==
    {<<>>, <<1, 2>>, <<1, 2, 0, 0>>, <<0, 1>>, <<1, 0, 2, 0>>}
StaticAttributes ==
    {[a \in {} |-> ""],
     [a \in {"factory_name"} |-> STABLE_SWAP_FACTORY],
     [factory_name |-> STABLE_SWAP_FACTORY, pool_type |-> PLAIN_POOL],
     [factory_name |-> STABLE_SWAP_FACTORY, pool_type |-> "meta_pool"],
     [factory_name |-> "crypto_swap_factory", pool_type |-> PLAIN_POOL]}
\* TransactionVMUpdates of the i-th transaction of block 1, with one
\* component.
TransactionVMUpdates(i) ==
    {[tx |-> Transaction(1, i),
      protocol_components |->
         [c \in {CREATED_CONTRACT} |-> ProtocolComponent(c, t, s)]]
     : <<t, s>> \in TokenLists \X StaticAttributes}
\* BlockContractChanges of block n with protocol components.
BlockComponentChanges(n) ==
    [block : {Block(n)},
     tx_updates : SeqsBy(TransactionVMUpdates, MaxTxUpdates)]

CompatTrimCurveComponentToken ==
    /\ calls = <<>>
    /\ \E changes \in BlockComponentChanges(1) :
          CompatReturn([op |-> "trim_curve_component_token",
                        changes |-> changes,
                        result |-> trim_curve_component_token(changes)])

CompatNext ==
    \/ CompatAddDefaultAttributes
    \/ CompatTrimCurveComponentToken

CompatSpec == Init /\ [][CompatNext]_vars

DefaultsAdded == calls # <<>> /\ calls[1].op = "add_default_attributes"

\* C32: add_default_attributes gives every component a transaction newly
\* creates a state in that transaction in which each mandatory attribute
\* the state did not have is 32 zero bytes and every attribute it had is
\* unchanged; the states of components the transaction does not create,
\* and everything else, are unchanged, so a block without new components
\* is returned as it was.
C32_DefaultsOnlyForNewComponents ==
    DefaultsAdded =>
       LET before == calls[1].changes.txs_with_update
           after == calls[1].result.txs_with_update
           mandatory == Range(calls[1].attributes)
       IN  /\ calls[1].result.block = calls[1].changes.block
           /\ DOMAIN after = DOMAIN before
           /\ \A i \in DOMAIN before :
                LET new == DOMAIN before[i].new_protocol_components
                    old == before[i].protocol_states
                    res == after[i].protocol_states
                IN  /\ after[i].tx = before[i].tx
                    /\ after[i].new_protocol_components
                         = before[i].new_protocol_components
                    /\ DOMAIN res = DOMAIN old \cup new
                    /\ \A c \in DOMAIN old \ new : res[c] = old[c]
                    /\ \A c \in new :
                         LET had == IF c \in DOMAIN old
                                    THEN old[c].updated_attributes
                                    ELSE [a \in {} |-> ZeroU256Bytes]
                         IN  /\ res[c].component_id = c
                             /\ DOMAIN res[c].updated_attributes
                                  = DOMAIN had \cup mandatory
                             /\ \A a \in DOMAIN had :
                                   res[c].updated_attributes[a] = had[a]
                             /\ \A a \in mandatory \ DOMAIN had :
                                   res[c].updated_attributes[a]
                                     = ZeroU256Bytes
                             /\ res[c].deleted_attributes
                                  = IF c \in DOMAIN old
                                    THEN old[c].deleted_attributes ELSE {}
           /\ (\A i \in DOMAIN before :
                  DOMAIN before[i].new_protocol_components = {})
                => calls[1].result = calls[1].changes
\* The uniswap v3 defaults were added to a block in which the first
\* transaction creates a component with a tick and the second only updates
\* the tick of that component: the first state keeps its tick and has the
\* two other attributes zeroed, the second is as it was.
C32_Witness ==
    /\ DefaultsAdded
    /\ calls[1].attributes = USV3_MANDATORY_ATTRIBUTES
    /\ Len(calls[1].changes.txs_with_update) = 2
    /\ LET before == calls[1].changes.txs_with_update
           after == calls[1].result.txs_with_update
       IN  /\ DOMAIN before[1].new_protocol_components = {CREATED_CONTRACT}
           /\ DOMAIN before[2].new_protocol_components = {}
           /\ CREATED_CONTRACT \in DOMAIN before[1].protocol_states
           /\ DOMAIN before[1].protocol_states[CREATED_CONTRACT]
                 .updated_attributes = {"tick"}
           /\ CREATED_CONTRACT \in DOMAIN before[2].protocol_states
           /\ after[1].protocol_states[CREATED_CONTRACT].updated_attributes
                = [a \in {"liquidity", "tick", "sqrt_price_x96"} |->
                     IF a = "tick" THEN OneU64Bytes ELSE ZeroU256Bytes]
           /\ after[2] = before[2]

Trimmed == calls # <<>> /\ calls[1].op = "trim_curve_component_token"
\* The static attributes mark the component as a plain pool of the stable
\* swap factory.
IsPlainPool(component) ==
    /\ "factory_name" \in DOMAIN component.static_attributes
    /\ component.static_attributes["factory_name"] = STABLE_SWAP_FACTORY
    /\ "pool_type" \in DOMAIN component.static_attributes
    /\ component.static_attributes["pool_type"] = PLAIN_POOL
\* The token list without its trailing zero entries.
RECURSIVE StripTrailingZeros(_)
StripTrailingZeros(tokens) ==
    IF tokens # <<>> /\ tokens[Len(tokens)] = 0
    THEN StripTrailingZeros(SubSeq(tokens, 1, Len(tokens) - 1))
    ELSE tokens
\* Every component of the result is that of the block with its token list
\* replaced by F(tokens) if it is a plain pool, and nothing else differs.
TrimmedBy(F(_)) ==
    LET before == calls[1].changes.tx_updates
        after == calls[1].result.tx_updates
    IN  /\ calls[1].result.block = calls[1].changes.block
        /\ DOMAIN after = DOMAIN before
        /\ \A i \in DOMAIN before :
             /\ after[i].tx = before[i].tx
             /\ DOMAIN after[i].protocol_components
                  = DOMAIN before[i].protocol_components
             /\ \A c \in DOMAIN before[i].protocol_components :
                  LET component == before[i].protocol_components[c]
                  IN  after[i].protocol_components[c]
                        = IF IsPlainPool(component)
                          THEN [component EXCEPT !.tokens = F(@)]
                          ELSE component

\* C33 as stated: trimming removes only the trailing all-zero entries of
\* the token list of a plain-pool component, keeps every other entry in its
\* order and touches no other component.
C33_TrimsTrailingZeros == Trimmed => TrimmedBy(StripTrailingZeros)

\* The entries of the token list that are not zero, in their order.
NonZeroTokens(tokens) == SelectSeq(tokens, LAMBDA t : t # 0)
\* What trimming does: it removes every all-zero entry of the token list of
\* a plain-pool component, wherever it stands, keeps every other entry in
\* its order and touches no other component.
RemovesEveryZeroToken == Trimmed => TrimmedBy(NonZeroTokens)

\* ---------------------------------------------------- protocol components

\* add_protocol_components, delete_protocol_components, add_protocol_types
\* and add_tokens called on a database that holds the fixture of the
\* gateway's tests; the store before the call is kept in pre and the
\* arguments in calls.
MaxComponents == 1
WETH == "0xc02aaa39b223fe8d0a0e5c4f27ead9083c756cc2"
USDC == "0xa0b86991c6218b36c1d19d4a2e9eb0ce3606eb48"
USDT == "0xdac17f958d2ee523a2206206994597c13d831ec7"
POOL == "Pool"
PROTOCOL == "Protocol"

\* ProtocolComponent as the gateway takes it.
Component(chain, system, id, tokens, contract_ids, creation_tx) ==
    [id |-> id, protocol_system |-> system, protocol_type_name |-> POOL,
     chain |-> chain, tokens |-> tokens, contract_ids |-> contract_ids,
     creation_tx |-> creation_tx]
\* The key of protocol_db_id_map and of the unique constraint of the table.
ComponentKey(c) == <<c.id, c.protocol_system, c.chain>>

\* Rows of the tables protocol_component, protocol_component_holds_token
\* and protocol_component_holds_contract; a component's database id is
\* stood for by its unique key.
ComponentRow(c, pt) ==
    [fam |-> "protocol_component", external_id |-> c.id,
     protocol_system |-> c.protocol_system, chain |-> c.chain,
     protocol_type_name |-> pt, creation_tx |-> c.creation_tx,
     deleted_at |-> None]
HoldsToken(k, t) ==
    [fam |-> "protocol_component_holds_token", protocol_component |-> k,
     token |-> t]
HoldsContract(k, a) ==
    [fam |-> "protocol_component_holds_contract", protocol_component |-> k,
     contract |-> a]
RowKey(r) == <<r.external_id, r.protocol_system, r.chain>>
StoredComponents(s) == {r \in s.rows : r.fam = "protocol_component"}
Junctions(s) ==
    {r \in s.rows : r.fam \in {"protocol_component_holds_token",
                               "protocol_component_holds_contract"}}
StoredTokens(s) == {r.address : r \in {x \in s.rows : x.fam = "token"}}
StoredContracts(s) ==
    {r.address : r \in {x \in s.rows : x.fam = "contract_code"}}
StoredTypes(s) == {r.name : r \in {x \in s.rows : x.fam = "protocol_type"}}

\* models::ProtocolType and its row in protocol_type.
ProtocolType(name, financial_type) ==
    [name |-> name, financial_type |-> financial_type]
ProtocolTypeRow(pt) ==
    [fam |-> "protocol_type", name |-> pt.name,
     financial_type |-> pt.financial_type]

\* add_protocol_types: INSERT ... ON CONFLICT (name) DO NOTHING; of the new
\* types, the first of each name that is not stored is inserted.
add_protocol_types(s, new_protocol_types) ==
    LET first == {i \in 1..Len(new_protocol_types) :
                    /\ new_protocol_types[i].name \notin StoredTypes(s)
                    /\ \A j \in 1..(i - 1) :
                          new_protocol_types[j].name
                            # new_protocol_types[i].name}
    IN  StorageOk([s EXCEPT !.rows =
                     @ \cup {ProtocolTypeRow(new_protocol_types[i]) :
                               i \in first}])

\* ERC20Token, the row of its account and its row in token; the account's
\* database id is stood for by its address and chain.
ERC20Token(address, symbol, decimals, chain) ==
    [address |-> address, symbol |-> symbol, decimals |-> decimals,
     chain |-> chain]
\* format!("{:?}", chain)
ChainDebug(chain) ==
    CASE chain = "ethereum" -> "Ethereum"
      [] chain = "starknet" -> "Starknet"
      [] chain = "zksync" -> "ZkSync"
\* format!("{:?}_{}", token.chain(), token.symbol())
TokenTitle(token) == ChainDebug(token.chain) \o "_" \o token.symbol
TokenAccountRow(token) ==
    [fam |-> "account", title |-> TokenTitle(token),
     address |-> token.address, chain |-> token.chain]
TokenRow(token) ==
    [fam |-> "token", address |-> token.address, chain |-> token.chain,
     symbol |-> token.symbol, decimals |-> token.decimals]

\* add_tokens: the accounts of the tokens are inserted, ON CONFLICT
\* (address, chain_id) DO NOTHING, and then the tokens, ON CONFLICT
\* (account_id) DO NOTHING; of the tokens, the first of each address and
\* chain whose account, or token, is not stored is inserted.
add_tokens(s, tokens) ==
    LET Same(x, y) == x.address = y.address /\ x.chain = y.chain
        FirstNew(fam) ==
            {i \in 1..Len(tokens) :
               /\ ~\E r \in s.rows : r.fam = fam /\ Same(r, tokens[i])
               /\ \A j \in 1..(i - 1) : ~Same(tokens[j], tokens[i])}
        s1 == [s EXCEPT !.rows =
                 @ \cup {TokenAccountRow(tokens[i]) :
                           i \in FirstNew("account")}]
    IN  StorageOk([s1 EXCEPT !.rows =
                     @ \cup {TokenRow(tokens[i]) : i \in FirstNew("token")}])

\* INSERT ... ON CONFLICT (chain_id, protocol_system_id, external_id) DO
\* NOTHING RETURNING: the rows are inserted one after the other, a row
\* whose key is stored is skipped, and the keys of the inserted rows are
\* returned.
RECURSIVE InsertComponents(_, _, _, _)
InsertComponents(rows, new, pt, inserted) ==
    IF new = <<>> THEN [rows |-> rows, inserted |-> inserted]
    ELSE LET c == Head(new)
         IN  IF \E r \in rows : /\ r.fam = "protocol_component"
                                /\ RowKey(r) = ComponentKey(c)
             THEN InsertComponents(rows, Tail(new), pt, inserted)
             ELSE InsertComponents(rows \cup {ComponentRow(c, pt)},
                                   Tail(new), pt,
                                   inserted \cup {ComponentKey(c)})

\* add_protocol_components
add_protocol_components(s, new) ==
    IF new = <<>> THEN Panicked(s, "index out of bounds")
    ELSE IF new[1].protocol_type_name \notin StoredTypes(s)
    THEN StorageErr(s, "NotFound")
    ELSE IF \E i \in 1..Len(new) :
               ~\E t \in s.txs : t.hash = new[i].creation_tx
    THEN StorageErr(s, "DecodeError")
    ELSE
    LET ins == InsertComponents(s.rows, new, new[1].protocol_type_name, {})
        protocol_db_id_map == ins.inserted
        s1 == [s EXCEPT !.rows = ins.rows]
        filtered_new_protocol_components ==
            {new[i] : i \in {j \in 1..Len(new) :
                               ComponentKey(new[j]) \in protocol_db_id_map}}
        pc_tokens_map ==
            UNION {{<<ComponentKey(c), t>> : t \in Range(c.tokens)} :
                     c \in filtered_new_protocol_components}
        s2 == [s1 EXCEPT !.rows =
                 @ \cup {HoldsToken(e[1], e[2]) : e \in pc_tokens_map}]
    IN  IF \E e \in pc_tokens_map : e[2] \notin StoredTokens(s)
        THEN StorageErr(s1, "NotFound")
        ELSE IF \E i \in 1..Len(new) :
                   ComponentKey(new[i]) \notin protocol_db_id_map
        THEN Panicked(s2, "Could not find Protocol Component.")
        ELSE LET pc_contract_map ==
                     UNION {{<<ComponentKey(new[i]), a>> :
                               a \in Range(new[i].contract_ids)} :
                              i \in 1..Len(new)}
             IN  IF \E e \in pc_contract_map : e[2] \notin StoredContracts(s)
                 THEN StorageErr(s2, "NotFound")
                 ELSE StorageOk(
                        [s2 EXCEPT !.rows =
                           @ \cup {HoldsContract(e[1], e[2]) :
                                     e \in pc_contract_map}])

\* delete_protocol_components
delete_protocol_components(s, to_delete, block_ts) ==
    LET ids_to_delete == {to_delete[i].id : i \in 1..Len(to_delete)}
    IN  StorageOk(
          [s EXCEPT !.rows =
             {IF r.fam = "protocol_component"
                 /\ r.external_id \in ids_to_delete
              THEN [r EXCEPT !.deleted_at = Some(block_ts)] ELSE r :
              r \in @}])

\* The tokens of the fixture.
WethToken == ERC20Token(WETH, "WETH", 18, "ethereum")
UsdcToken == ERC20Token(USDC, "USDC", 6, "ethereum")

\* The protocol components of the fixture, in the order of their
\* insertion: state1 and state3 of ethereum and ambient, state2 of starknet
\* and zigzag, each holding WETH and the contract of the WETH account.
FixtureComponents ==
    <<Component("ethereum", "ambient", "state1", <<WETH>>, <<WETH>>,
                Transaction(1, 1).hash),
      Component("ethereum", "ambient", "state3", <<WETH>>, <<WETH>>,
                Transaction(2, 1).hash),
      Component("starknet", "zigzag", "state2", <<WETH>>, <<WETH>>,
                Transaction(1, 2).hash)>>
\* The protocol states of the fixture: reserve1 of state1 set by the first
\* transaction and again by the last, reserve2 set by the first.
FixtureStates ==
    {Row("protocol_state", <<"state1", "reserve1">>, 1100, BlockTs(1),
         Some(BlockTs(2)), Transaction(1, 1).hash),
     Row("protocol_state", <<"state1", "reserve2">>, 500, BlockTs(1), None,
         Transaction(1, 1).hash),
     Row("protocol_state", <<"state1", "reserve1">>, 1000, BlockTs(2), None,
         Transaction(2, 2).hash)}

\* The fixture of the gateway's tests, run on an empty database: two
\* blocks with two transactions each, the protocol type Pool, the tokens
\* WETH and USDC with their accounts, the contract of the WETH account, the
\* three protocol components with their junction rows and the protocol
\* states of state1.
ComponentsSetupData ==
    /\ store = EmptyStore
    /\ LET r1 == UpsertTxs(upsert_block(store, Block(1)).store,
                           <<Transaction(1, 1), Transaction(1, 2)>>)
           r2 == UpsertTxs(upsert_block(r1.store, Block(2)).store,
                           <<Transaction(2, 1), Transaction(2, 2)>>)
           C == Range(FixtureComponents)
       IN  StoreReturn(
             StorageOk([r2.store EXCEPT !.rows =
                          @ \cup {ProtocolTypeRow(ProtocolType(POOL, "Swap")),
                                  TokenAccountRow(WethToken),
                                  TokenRow(WethToken),
                                  TokenAccountRow(UsdcToken),
                                  TokenRow(UsdcToken),
                                  [fam |-> "contract_code",
                                   address |-> WETH]}
                            \cup {ComponentRow(c, POOL) : c \in C}
                            \cup {HoldsToken(ComponentKey(c), WETH) : c \in C}
                            \cup {HoldsContract(ComponentKey(c), WETH) :
                                    c \in C}
                            \cup FixtureStates]))

\* The components a caller passes: the same external id on two chains and
\* in two protocol systems, and a second external id; with or without a
\* token and a contract of the fixture, and one of a type and with a token
\* that the fixture does not hold.
ComponentMenu ==
    {Component(k[1], k[2], k[3], x, x, Transaction(1, 1).hash) :
       k \in {<<"ethereum", "ambient", "state1">>,
              <<"starknet", "ambient", "state1">>,
              <<"ethereum", "zigzag", "state1">>,
              <<"ethereum", "ambient", "state2">>},
       x \in {<<>>, <<WETH>>}}
    \cup {[Component("ethereum", "ambient", "state2", <<USDT>>, <<>>,
                     Transaction(1, 1).hash)
             EXCEPT !.protocol_type_name = PROTOCOL]}
\* The lists of at most two components with different keys.
ComponentLists ==
    {l \in SeqsUpTo(ComponentMenu, 2) :
       \A i, j \in 1..Len(l) :
          ComponentKey(l[i]) = ComponentKey(l[j]) => i = j}

\* A call of the protocol gateway on a connection: the gateway opens no
\* transaction, so the statements executed before an error stay.
ComponentsCall(op, new, r) ==
    /\ store' = r.store
    /\ calls' = <<[op |-> op, new |-> new]>>
    /\ pre' = Snapshot(store, cursor, 0, <<>>,
                       IF r.ok THEN "ok" ELSE r.err.kind)
    /\ UNCHANGED storeFrame

\* add_protocol_components is called while fewer than MaxComponents
\* components have been added to those of the fixture.
ComponentsAdd ==
    /\ Cardinality(StoredComponents(store))
         < Len(FixtureComponents) + MaxComponents
    /\ \E new \in ComponentLists :
          ComponentsCall("add_protocol_components", new,
                         add_protocol_components(store, new))

\* add_protocol_types is called with the fixture's type under another
\* financial type and with a further type.
ComponentsAddTypes ==
    /\ LET new == <<ProtocolType(POOL, "Debt"), ProtocolType(PROTOCOL, "Debt")>>
       IN  ComponentsCall("add_protocol_types", new,
                          add_protocol_types(store, new))

\* add_tokens is called on a database that holds the chains, with a
\* further token and with the fixture's token under other decimals.
ComponentsAddTokens ==
    /\ store.blocks # {}
    /\ LET new == <<ERC20Token(USDT, "USDT", 6, "ethereum"),
                    ERC20Token(WETH, "WETH", 6, "ethereum")>>
       IN  ComponentsCall("add_tokens", new, add_tokens(store, new))

\* The components are deleted at the timestamp of the latest block.
ComponentsDelete ==
    /\ \E to_delete \in ComponentLists :
          /\ \A i \in 1..Len(to_delete) : to_delete[i].tokens = <<>>
          /\ LET block_ts == BlockTs(LatestNumber(store))
             IN  ComponentsCall("delete_protocol_components",
                                [list |-> to_delete, block_ts |-> block_ts],
                                delete_protocol_components(store, to_delete,
                                                           block_ts))

ComponentsNext ==
    \/ ComponentsSetupData
    \/ ComponentsAddTypes
    \/ ComponentsAddTokens
    \/ ComponentsAdd
    \/ ComponentsDelete

ComponentsSpec == Init /\ [][ComponentsNext]_vars

ComponentsAdded ==
    calls # <<>> /\ calls[1].op = "add_protocol_components"
\* A component of the added type that holds the added token is stored.
AddedTypeAndTokenAreUsed ==
    /\ ComponentsAdded
    /\ pre.status = "ok"
    /\ \E r \in StoredComponents(store) :
          /\ r.protocol_type_name = PROTOCOL
          /\ HoldsToken(RowKey(r), USDT) \in store.rows
\* add_protocol_types and add_tokens leave the rows of a stored type and of
\* a stored token and its account as they are.
StoredTypesAndTokensAreKept ==
    (calls # <<>> /\ calls[1].op \in {"add_protocol_types", "add_tokens"})
    => /\ pre.status = "ok"
       /\ pre.store.rows \subseteq store.rows
       /\ \A r \in store.rows \ pre.store.rows :
             /\ r.fam \in {"protocol_type", "account", "token"}
             /\ \A x \in pre.store.rows :
                   x.fam = r.fam =>
                      IF r.fam = "protocol_type" THEN x.name # r.name
                      ELSE x.address # r.address \/ x.chain # r.chain
ComponentsDeleted ==
    calls # <<>> /\ calls[1].op = "delete_protocol_components"
StoredKeys(s) == {RowKey(r) : r \in StoredComponents(s)}
\* The transactions, tokens, contracts and protocol type the list refers
\* to are stored.
ListIsStorable(s, new) ==
    /\ new # <<>>
    /\ \A i \in 1..Len(new) :
          /\ new[i].protocol_type_name \in StoredTypes(s)
          /\ \E t \in s.txs : t.hash = new[i].creation_tx
          /\ Range(new[i].tokens) \subseteq StoredTokens(s)
          /\ Range(new[i].contract_ids) \subseteq StoredContracts(s)
\* The rows of the component with key k and of its junction entries.
RowsOfComponent(s, k) ==
    {r \in StoredComponents(s) : RowKey(r) = k}
    \cup {r \in Junctions(s) : r.protocol_component = k}

\* C34: add_protocol_components called with a list in which some
\* components already exist by identity returns Ok, inserts the new
\* components together with their token and contract junction entries,
\* and leaves the existing components and their junction entries unchanged.
C34_ExistingComponentsAreSkipped ==
    (/\ ComponentsAdded
     /\ ListIsStorable(pre.store, calls[1].new)
     /\ \E c \in Range(calls[1].new) :
           ComponentKey(c) \in StoredKeys(pre.store))
    => /\ pre.status = "ok"
       /\ \A c \in Range(calls[1].new) :
             LET k == ComponentKey(c)
             IN  IF k \in StoredKeys(pre.store)
                 THEN RowsOfComponent(store, k)
                        = RowsOfComponent(pre.store, k)
                 ELSE RowsOfComponent(store, k)
                        = {ComponentRow(c, calls[1].new[1].protocol_type_name)}
                          \cup {HoldsToken(k, t) : t \in Range(c.tokens)}
                          \cup {HoldsContract(k, a) :
                                  a \in Range(c.contract_ids)}
       /\ \A k \in StoredKeys(pre.store) :
             RowsOfComponent(store, k) = RowsOfComponent(pre.store, k)

\* What holds of the code: the components of a storable list that are not
\* stored are inserted with their token junction entries; if none of the
\* list was stored the contract junction entries follow and the call
\* returns Ok, otherwise the call panics with what it has written left on
\* the connection.
AddInsertsOrPanics ==
    (ComponentsAdded /\ ListIsStorable(pre.store, calls[1].new))
    => LET new == calls[1].new
           fresh == {c \in Range(new) :
                       ComponentKey(c) \notin StoredKeys(pre.store)}
           inserted ==
               {ComponentRow(c, new[1].protocol_type_name) : c \in fresh}
               \cup UNION {{HoldsToken(ComponentKey(c), a) :
                              a \in Range(c.tokens)} : c \in fresh}
           contracts ==
               UNION {{HoldsContract(ComponentKey(c), a) :
                         a \in Range(c.contract_ids)} : c \in fresh}
       IN  IF fresh # Range(new)
           THEN /\ pre.status = "panic"
                /\ store.rows = pre.store.rows \cup inserted
           ELSE /\ pre.status = "ok"
                /\ store.rows = pre.store.rows \cup inserted \cup contracts

\* C40: delete_protocol_components sets deleted_at only on the components
\* whose identity (chain, protocol_system, external_id) equals that of a
\* component in the argument; every other component, including one that has
\* the same external_id on a different chain or protocol system, is left
\* unchanged.
C40_DeletesByIdentity ==
    ComponentsDeleted
    => LET keys == {ComponentKey(c) : c \in Range(calls[1].new.list)}
       IN  /\ pre.status = "ok"
           /\ \A r \in StoredComponents(pre.store) :
                 IF RowKey(r) \in keys
                 THEN [r EXCEPT !.deleted_at = Some(calls[1].new.block_ts)]
                        \in store.rows
                 ELSE r \in store.rows
           /\ Cardinality(store.rows) = Cardinality(pre.store.rows)

\* What holds of the code: deleted_at is set on every component whose
\* external_id is that of a component in the argument, whatever its chain
\* and protocol system.
DeletesByExternalId ==
    ComponentsDeleted
    => LET ids == {c.id : c \in Range(calls[1].new.list)}
       IN  \A r \in StoredComponents(pre.store) :
              IF r.external_id \in ids
              THEN [r EXCEPT !.deleted_at = Some(calls[1].new.block_ts)]
                     \in store.rows
              ELSE r \in store.rows

\* ------------------------------------------------------ request versions

\* dto::VersionParam: an optional timestamp and an optional block whose
\* hash, chain and number are optional.
DtoChains == {"Ethereum", "Starknet", "ZkSync"}
\* Chain::from(dto::Chain)
ChainFrom(chain) ==
    CASE chain = "Ethereum" -> "ethereum"
      [] chain = "Starknet" -> "starknet"
      [] chain = "ZkSync" -> "zksync"
DtoBlocks ==
    [hash : {None} \cup {Some(BlockHash(n)) : n \in 1..MaxBlock},
     chain : {None} \cup {Some(c) : c \in DtoChains},
     number : {None} \cup {Some(n) : n \in 1..MaxBlock}]
VersionParams ==
    [timestamp : {None} \cup {Some(BlockTs(n)) : n \in 1..MaxBlock},
     block : {None} \cup {Some(b) : b \in DtoBlocks}]

\* BlockIdentifier::Number((chain, number))
BlockIdChainNumber(chain, n) ==
    [by |-> "Number", hash |-> <<>>, number |-> n, chain |-> chain]
\* BlockOrTimestamp
VersionBlock(id) == [kind |-> "Block", block |-> id]
VersionTimestamp(ts) == [kind |-> "Timestamp", ts |-> ts]
ParsedOk(v) == [ok |-> TRUE, value |-> v, err |-> NoResult]
ParseErr(msg) == [ok |-> FALSE, value |-> <<>>, err |-> Error("Parse", msg)]

\* The conversion with the number tried before the hash.
BlockOrTimestamp_try_from_numberFirst(version) ==
    IF version.block # None
    THEN LET block == version.block[1]
         IN  IF block.chain # None /\ block.number # None
             THEN ParsedOk(VersionBlock(
                      BlockIdChainNumber(ChainFrom(block.chain[1]),
                                         block.number[1])))
             ELSE IF block.hash # None
             THEN ParsedOk(VersionBlock(BlockIdHash(block.hash[1])))
             ELSE ParseErr("Insufficient block information")
    ELSE IF version.timestamp # None
    THEN ParsedOk(VersionTimestamp(version.timestamp[1]))
    ELSE ParseErr("Missing timestamp or block identifier")

\* TryFrom<&dto::VersionParam> for BlockOrTimestamp
BlockOrTimestamp_try_from(version) ==
    IF version.block # None
    THEN LET block == version.block[1]
         IN  IF block.hash # None
             THEN ParsedOk(VersionBlock(BlockIdHash(block.hash[1])))
             ELSE IF block.chain # None /\ block.number # None
             THEN ParsedOk(VersionBlock(
                      BlockIdChainNumber(ChainFrom(block.chain[1]),
                                         block.number[1])))
             ELSE ParseErr("Insufficient block information")
    ELSE IF version.timestamp # None
    THEN ParsedOk(VersionTimestamp(version.timestamp[1]))
    ELSE ParseErr("Missing timestamp or block identifier")

VersionTryFrom ==
    /\ calls = <<>>
    /\ \E version \in VersionParams :
          /\ calls' = <<[op |-> "try_from", version |-> version,
                         result |-> BlockOrTimestamp_try_from(version)]>>
          /\ pre' = NoSnapshot
          /\ UNCHANGED <<store, storeFrame>>

VersionNext == VersionTryFrom

VersionSpec == Init /\ [][VersionNext]_vars

VersionParsed == calls # <<>> /\ calls[1].op = "try_from"
\* The identifier of a block that has a hash, or a chain and a number.
IdentifierOf(block) ==
    IF block.hash # None THEN BlockIdHash(block.hash[1])
    ELSE BlockIdChainNumber(ChainFrom(block.chain[1]), block.number[1])
IsSufficient(block) ==
    block.hash # None \/ (block.chain # None /\ block.number # None)

UndoHandled == cur.type = "Undo"

\* C37: handling an Undo yields a message for the subscribers if and only
\* if the changes returned by the store's revert contain at least one
\* account update; when the change set is empty no message is emitted,
\* while the store is still reverted and the cursor still moves to
\* last_valid_cursor.  A revert that returns Ok has committed the
\* transaction's view, whose latest block is the target and whose cursor is
\* last_valid_cursor, and returns the changes of the closure; the handler
\* then returns Some exactly for changes with an account update and, for
\* an empty set, None with the in-memory cursor set to last_valid_cursor;
\* the runner's match emits exactly for Some.
C37_UndoEmitsIffAccountUpdates ==
    [][/\ (UndoHandled /\ pc = "commit" /\ txn'.ok) =>
            /\ txn'.value = txn.value
            /\ store' = txn.view
            /\ \E b \in store.blocks :
                  /\ b.hash = calls[1].to.hash
                  /\ LatestNumber(store') = b.number
            /\ store'.cursor = Some(AsBytes(cur.cursor))
       /\ (UndoHandled /\ pc = "returned") =>
            LET returned == outcome'.kind # "Err"
                changes == txn.value
            IN  /\ returned <=> txn.ok
                /\ outcome'.kind = "Some"
                     <=> (returned /\ changes.account_updates # {})
                /\ (returned /\ changes.account_updates = {}) =>
                      /\ outcome'.kind = "None"
                      /\ store' = store
                      /\ FromUtf8(cursor'.cursor) = cur.cursor
       /\ (UndoHandled /\ pc = "match") =>
            /\ emitted' # emitted <=> outcome.kind = "Some"
            /\ outcome.kind = "None" => pc' = "select"]_vars

\* An Undo whose revert removed a block and returned no account update has
\* been handled: no message, the store reverted, the cursor moved.
C37_Witness ==
    /\ UndoHandled
    /\ pc = "match"
    /\ outcome.kind = "None"
    /\ LatestNumber(store) < LatestNumber(pre.store)
    /\ Len(emitted) = pre.emitted
    /\ FromUtf8(cursor.cursor) = cur.cursor
    /\ cursor # pre.cursor

\* ------------------------------------------- errors after the block write

\* The payloads of block n in which one transaction carries two changes of
\* the contract, the first writing a slot and the second the balance.
RepeatedChanges(n) ==
    {<<AccountUpdateWithTx([s \in Slots |-> v], None, None, "Update",
                           Transaction(n, i)),
       AccountUpdateWithTx(EmptyMap, Some(v), None, "Update",
                           Transaction(n, i))>> :
       i \in TxIndices, v \in Values}

\* The runner takes a New whose payload has such a transaction.
TakeNewRepeated ==
    /\ pc = "select"
    /\ handled < ExtMsgs
    /\ head < MaxBlock
    /\ \E changes \in RepeatedChanges(head + 1) :
          cur' = BlockScopedData(CursorOf(handled + 1),
                                 [block |-> Some(Block(head + 1)),
                                  changes |-> changes])
    /\ head' = head + 1
    /\ handled' = handled + 1
    /\ pre' = Snapshot(store, cursor, Len(emitted), CursorOf(handled + 1),
                       "running")
    /\ calls' = <<>>
    /\ pc' = "handle"
    /\ UNCHANGED <<outcome, ctrlQ, subs, order, toRemove, result, chanVars,
                   emitted, registered, assigned, created, stopResults,
                   store, txn, cursor>>

TickNext ==
    \/ ExtNext
    \/ TakeNewRepeated

TickSpec == Init /\ [][TickNext]_vars

\* The handler of a New message has returned.
NewReturned == cur.type = "New" /\ pc = "match"

\* C38: whenever handling an upstream New message returns an error, nothing
\* of that block has been committed to the store and neither the persisted
\* cursor nor the in-memory cursor has moved to that message's cursor;
\* conversely, whenever a block's writes are committed, the block's
\* aggregated message is emitted to the subscribers.
C38_ErrorMeansNothingCommitted ==
    [][NewReturned =>
         /\ outcome.kind = "Err" =>
               /\ store = pre.store
               /\ store.cursor # Some(AsBytes(cur.cursor))
               /\ FromUtf8(cursor.cursor) # cur.cursor
         /\ store # pre.store =>
               /\ outcome.kind = "Some"
               /\ emitted' = Append(emitted, Message(handled))]_vars

\* ----------------------------------------------- applying a balance delta

\* The balance of each component of the chain and token as of ts.
BalancesAsOf(ts) ==
    {<<r.key, r.val>> : r \in {x \in ValidRows(ChainBalances, ts) :
        ValueAsOf(ChainBalances, x.key, ts, x.val)}}
\* The balances B overwritten with the entries of the delta res.
Overwritten(B, res) ==
    {e \in B : e[1] \notin BalanceKeys(res)}
    \cup {<<<<res[i].component_id, res[i].token>>, res[i].new_balance>> :
            i \in 1..Len(res)}
\* Every balance of E is the balance of its component and token in B.
AgreesOn(B, E) ==
    \A e \in E : e \in B /\ \A b \in B : b[1] = e[1] => b = e

\* C39: for any two versions s and e of a chain, in both directions,
\* overwriting the component balances as of s with the entries of
\* get_balance_deltas(s, e) yields exactly the component balances as of e
\* for every (component, token) pair that has a balance at e.
C39_DeltaMovesBalancesToEnd ==
    BalanceDeltasQueried =>
       AgreesOn(Overwritten(BalancesAsOf(StartTs), calls[1].result),
                BalancesAsOf(EndTs))

\* What holds of the code in the forward direction, s <= e.
ForwardDeltaMovesBalancesToEnd ==
    (BalanceDeltasQueried /\ StartTs <= EndTs) =>
       AgreesOn(Overwritten(BalancesAsOf(StartTs), calls[1].result),
                BalancesAsOf(EndTs))

====
